---- MODULE Spec2Model ----
(***************************************************************************)
(* A model of the greenpass decoder (src/src/lib.rs): the strict map       *)
(* extractors, the entity decoders (Recovery, Test, Vaccine, GreenPass)    *)
(* and the claims-map part of the HealthCert decoder.                      *)
(*                                                                         *)
(* A serde_cbor Value is a record [t |-> <variant>, v |-> <payload>].      *)
(* A BTreeMap<String, Value> is a function from strings to Values, a       *)
(* BTreeMap<isize, Value> a function from integers to Values, and a        *)
(* Value::Map a function from Values to Values.  A Rust Result is          *)
(* [tag |-> "Ok", val |-> x] or [tag |-> "Err", val |-> [kind, payload]].      *)
(***************************************************************************)
EXTENDS Integers, Sequences, FiniteSets, TLC

VARIABLES kind, values, result, prevResult, last, edits

vars == <<kind, values, result, prevResult, last, edits>>

(***************************************************************************)
(* Bounds of the model.                                                    *)
(***************************************************************************)
\* how many times the input map is edited after the sample is loaded (a
\* value is replaced by removing its key and adding it again)
MaxEdits == 2
\* width of usize and of i64 in the model (64 in the build, scaled down)
WordBits == 8

(***************************************************************************)
(* serde_cbor::Value                                                       *)
(***************************************************************************)
Text(s) == [t |-> "Text", v |-> s]
Integer(n) == [t |-> "Integer", v |-> n]
Array(a) == [t |-> "Array", v |-> a]
Map(f) == [t |-> "Map", v |-> f]
Bytes(b) == [t |-> "Bytes", v |-> b]
Null == [t |-> "Null", v |-> 0]

\* Result<T, Error>
Ok(x) == [tag |-> "Ok", val |-> x]
Err(k, p) == [tag |-> "Err", val |-> [kind |-> k, payload |-> p]]
IsOk(r) == r.tag = "Ok"
IsErr(r, k) == r.tag = "Err" /\ r.val.kind = k

\* BTreeMap helpers
EmptyMap == [x \in {} |-> x]
is_empty(m) == DOMAIN m = {}
Put(m, k, x) == [y \in DOMAIN m \cup {k} |-> IF y = k THEN x ELSE m[y]]
Without(m, k) == [y \in DOMAIN m \ {k} |-> m[y]]

\* `let x = e; body`: e is evaluated once and body(x) is the value.  (TLC
\* evaluates a LET definition again at each of its uses.)
Bind(e, body(_)) == CHOOSE r \in {body(x) : x \in {e}} : TRUE

\* a Value::Map whose keys are all Value::Text, from a string-keyed function
StrMap(f) == Map([kv \in {Text(k) : k \in DOMAIN f} |-> f[kv.v]])

(***************************************************************************)
(* Text.  TLC treats a string as an atom, so the characters of the texts   *)
(* that the decoders parse are tabulated; every other text is only moved   *)
(* around and compared.                                                    *)
(***************************************************************************)
Chars(s) ==
    CASE s = "2021-02-20" -> <<"2","0","2","1","-","0","2","-","2","0">>
      [] s = "2021-04-04" -> <<"2","0","2","1","-","0","4","-","0","4">>
      [] s = "2021-10-04" -> <<"2","0","2","1","-","1","0","-","0","4">>
      [] s = "2021-2-3" -> <<"2","0","2","1","-","2","-","3">>
      [] s = "2021-02-30" -> <<"2","0","2","1","-","0","2","-","3","0">>
      [] s = "2021-02-20T12:34:56Z" ->
            <<"2","0","2","1","-","0","2","-","2","0","T",
              "1","2",":","3","4",":","5","6","Z">>
      [] s = "2021-02-20T12:34:56.000+00:00" ->
            <<"2","0","2","1","-","0","2","-","2","0","T",
              "1","2",":","3","4",":","5","6",".","0","0","0",
              "+","0","0",":","0","0">>
      [] s = "2021-02-20T12:34:56+0000" ->
            <<"2","0","2","1","-","0","2","-","2","0","T",
              "1","2",":","3","4",":","5","6","+","0","0","0","0">>
      [] s = "2021-02-20T13:34:56+01" ->
            <<"2","0","2","1","-","0","2","-","2","0","T",
              "1","3",":","3","4",":","5","6","+","0","1">>
      [] s = "AT" -> <<"A","T">>
      [] s = "1.2.1" -> <<"1",".","2",".","1">>
      [] s = "1232" -> <<"1","2","3","2">>
      [] s = "n/a" -> <<"n","/","a">>

Digits == <<"0","1","2","3","4","5","6","7","8","9">>
IsDigit(c) == \E i \in 1..10 : Digits[i] = c
DigitVal(c) == (CHOOSE i \in 1..10 : Digits[i] = c) - 1
IsSpace(c) == c = " "

RECURSIVE trim_left(_)
trim_left(cs) == IF cs # <<>> /\ IsSpace(Head(cs)) THEN trim_left(Tail(cs)) ELSE cs

Drop(cs, n) == SubSeq(cs, n + 1, Len(cs))

\* the number of leading digits of cs, at most max
RECURSIVE DigitRun(_, _)
DigitRun(cs, max) ==
    IF max = 0 \/ cs = <<>> THEN 0
    ELSE IF IsDigit(Head(cs)) THEN 1 + DigitRun(Tail(cs), max - 1) ELSE 0

RECURSIVE NumVal(_, _)
NumVal(cs, n) == IF n = 0 THEN 0 ELSE NumVal(cs, n - 1) * 10 + DigitVal(cs[n])

\* chrono::format::scan::number(s, min, max)
number(cs, min, max) ==
    Bind(DigitRun(cs, max), LAMBDA upto :
        IF upto < min THEN [ok |-> FALSE, val |-> 0, rest |-> cs]
        ELSE [ok |-> TRUE, val |-> NumVal(cs, upto), rest |-> Drop(cs, upto)])

(***************************************************************************)
(* chrono's parser runs over the items of a format.  The items:            *)
(*   Num   Item::Numeric: leading white space skipped, 1..width digits; a  *)
(*         signed item takes an explicit sign and then any number of       *)
(*         digits                                                          *)
(*   Fix   a number of the RFC 3339 parser: exactly width digits           *)
(*   Lit   Item::Literal, scan::char: one character of cs                  *)
(*   Frac  "%.f" and the time-secfrac of RFC 3339                          *)
(*   Tz    the offset: colon "required" (RFC 3339) or "optional"           *)
(*         (colon_or_space), zulu when "Z" is accepted, missing when the   *)
(*         minutes may be left out, trim when white space before it is     *)
(*         skipped                                                         *)
(***************************************************************************)
Item(k, field, width, signed, cs, colon, zulu, missing, trim) ==
    [k |-> k, field |-> field, width |-> width, signed |-> signed, cs |-> cs,
     colon |-> colon, zulu |-> zulu, missing |-> missing, trim |-> trim]
Num(field, width, signed) == Item("num", field, width, signed, {}, "", FALSE, FALSE, TRUE)
Fix(field, width) == Item("fix", field, width, FALSE, {}, "", FALSE, FALSE, FALSE)
Lit(cs) == Item("lit", "", 0, FALSE, cs, "", FALSE, FALSE, FALSE)
Frac == Item("frac", "nano", 9, FALSE, {}, "", FALSE, FALSE, FALSE)
Tz(colon, zulu, missing, trim) == Item("tz", "offset", 2, FALSE, {}, colon, zulu, missing, trim)

\* A parse in progress: ok, the rest of the input, the fields set so far.
PStart(cs) == [ok |-> TRUE, s |-> cs, f |-> [x \in {} |-> 0]]
PFail(st) == [st EXCEPT !.ok = FALSE]
PSet(st, rest, field, v) == [ok |-> TRUE, s |-> rest, f |-> Put(st.f, field, v)]

PNumeric(st, it) ==
    Bind(trim_left(st.s), LAMBDA s0 :
        LET sgn == it.signed /\ s0 # <<>> /\ Head(s0) \in {"+", "-"}
        IN Bind(IF sgn THEN number(Tail(s0), 1, Len(s0)) ELSE number(s0, 1, it.width),
                LAMBDA n :
            IF n.ok
            THEN PSet(st, n.rest, it.field, IF sgn /\ Head(s0) = "-" THEN 0 - n.val ELSE n.val)
            ELSE PFail(st)))

PFixed(st, it) ==
    Bind(number(st.s, it.width, it.width), LAMBDA n :
        IF n.ok THEN PSet(st, n.rest, it.field, n.val) ELSE PFail(st))

PChar(st, it) ==
    IF st.s # <<>> /\ Head(st.s) \in it.cs THEN [st EXCEPT !.s = Tail(st.s)]
    ELSE PFail(st)

RECURSIVE Pow10(_)
Pow10(n) == IF n = 0 THEN 1 ELSE 10 * Pow10(n - 1)

RECURSIVE SkipDigits(_)
SkipDigits(cs) == IF cs # <<>> /\ IsDigit(Head(cs)) THEN SkipDigits(Tail(cs)) ELSE cs

\* nothing unless a dot follows; after the dot 1..9 digits scaled to
\* nanoseconds (scan::nanosecond), further digits skipped
PFraction(st, it) ==
    IF st.s = <<>> \/ Head(st.s) # "." THEN st
    ELSE Bind(number(Tail(st.s), 1, it.width), LAMBDA n :
        IF n.ok
        THEN PSet(st, SkipDigits(n.rest), it.field,
                  n.val * Pow10(it.width - (Len(Tail(st.s)) - Len(n.rest))))
        ELSE PFail(st))

RECURSIVE colon_or_space(_)
colon_or_space(cs) ==
    IF cs # <<>> /\ (Head(cs) = ":" \/ IsSpace(Head(cs))) THEN colon_or_space(Tail(cs))
    ELSE cs

\* the minutes of scan::timezone_offset_internal: two digits, 00..59
OffsetMinutes(st, it, s3, hours, neg) ==
    IF Len(s3) >= 2
    THEN IF IsDigit(s3[1]) /\ IsDigit(s3[2]) /\ DigitVal(s3[1]) <= 5
         THEN Bind(hours * 3600 + (DigitVal(s3[1]) * 10 + DigitVal(s3[2])) * 60,
                   LAMBDA secs :
                       PSet(st, Drop(s3, 2), it.field, IF neg THEN 0 - secs ELSE secs))
         ELSE PFail(st)
    ELSE IF it.missing /\ s3 = <<>>
    THEN PSet(st, s3, it.field, IF neg THEN 0 - hours * 3600 ELSE hours * 3600)
    ELSE PFail(st)

\* scan::timezone_offset_internal: the sign, two digits of hours, the
\* separator, the minutes
timezone_offset(st, it, s0) ==
    IF s0 = <<>> \/ Head(s0) \notin {"+", "-"} THEN PFail(st)
    ELSE Bind(Tail(s0), LAMBDA s1 :
        IF Len(s1) < 2 \/ ~IsDigit(s1[1]) \/ ~IsDigit(s1[2]) THEN PFail(st)
        ELSE Bind(Drop(s1, 2), LAMBDA s2 :
            IF it.colon = "required" /\ (s2 = <<>> \/ Head(s2) # ":") THEN PFail(st)
            ELSE Bind(IF it.colon = "required" THEN Tail(s2) ELSE colon_or_space(s2),
                      LAMBDA s3 :
                OffsetMinutes(st, it, s3, DigitVal(s1[1]) * 10 + DigitVal(s1[2]),
                              Head(s0) = "-"))))

\* scan::timezone_offset, timezone_offset_zulu, timezone_offset_permissive
PTimezone(st, it) ==
    Bind(IF it.trim THEN trim_left(st.s) ELSE st.s, LAMBDA s0 :
        IF it.zulu /\ s0 # <<>> /\ Head(s0) \in {"Z", "z"}
        THEN PSet(st, Tail(s0), it.field, 0)
        ELSE timezone_offset(st, it, s0))

ParseItem(st, it) ==
    CASE it.k = "num" -> PNumeric(st, it)
      [] it.k = "fix" -> PFixed(st, it)
      [] it.k = "lit" -> PChar(st, it)
      [] it.k = "frac" -> PFraction(st, it)
      [] it.k = "tz" -> PTimezone(st, it)

\* chrono::format::parse: the items in order, the first failure ends it
RECURSIVE ParseItems(_, _)
ParseItems(st, items) ==
    IF items = <<>> THEN st
    ELSE Bind(ParseItem(st, Head(items)), LAMBDA n :
        IF n.ok THEN ParseItems(n, Tail(items)) ELSE n)

\* "%F", that is "%Y-%m-%d"
FormatF ==
    <<Num("year", 4, TRUE), Lit({"-"}), Num("month", 2, FALSE), Lit({"-"}),
      Num("day", 2, FALSE)>>

\* "%+": the RFC 3339 parser
FormatPlus ==
    <<Fix("year", 4), Lit({"-"}), Fix("month", 2), Lit({"-"}), Fix("day", 2),
      Lit({"t", "T"}), Fix("hour", 2), Lit({":"}), Fix("minute", 2), Lit({":"}),
      Fix("second", 2), Frac, Tz("required", TRUE, FALSE, FALSE)>>

\* "%Y-%m-%dT%H:%M:%S%.f" followed by the offset item tz
FormatYmdHMSf(tz) ==
    <<Num("year", 4, TRUE), Lit({"-"}), Num("month", 2, FALSE), Lit({"-"}),
      Num("day", 2, FALSE), Lit({"T"}), Num("hour", 2, FALSE), Lit({":"}),
      Num("minute", 2, FALSE), Lit({":"}), Num("second", 2, FALSE), Frac, tz>>

\* the formats extract_isodatetime tries, in its order:
\* "%+", "%Y-%m-%dT%H:%M:%S%.f%#z", "%Y-%m-%dT%H:%M:%S%.f%z"
\* "%+" alone
IsoFormats_rfc3339_only == <<FormatPlus>>

IsoFormats ==
    <<FormatPlus,
      FormatYmdHMSf(Tz("optional", TRUE, TRUE, TRUE)),
      FormatYmdHMSf(Tz("optional", FALSE, FALSE, TRUE))>>

IsLeap(y) == (y % 4 = 0 /\ y % 100 # 0) \/ y % 400 = 0
DaysIn(y, m) ==
    IF m = 2 THEN (IF IsLeap(y) THEN 29 ELSE 28)
    ELSE IF m \in {4, 6, 9, 11} THEN 30 ELSE 31
ValidDate(f) == f.month \in 1..12 /\ f.day >= 1 /\ f.day <= DaysIn(f.year, f.month)
ValidTime(f) == f.hour <= 23 /\ f.minute <= 59 /\ f.second <= 60

\* Parsed::to_naive_date
NaiveDateOf(f) == [year |-> f.year, month |-> f.month, day |-> f.day]

\* Parsed::to_datetime: the fields a DateTime<FixedOffset> is built from
DateTimeOf(f) ==
    [year |-> f.year, month |-> f.month, day |-> f.day, hour |-> f.hour,
     minute |-> f.minute, second |-> f.second,
     nano |-> IF "nano" \in DOMAIN f THEN f.nano ELSE 0, offset |-> f.offset]

\* NaiveDate::parse_from_str and DateTime::parse_from_str: the format's
\* items, the whole input consumed, and a date (and time) of the calendar
parse_from_str(ds, format, datetime) ==
    Bind(ParseItems(PStart(Chars(ds)), format), LAMBDA p :
        IF p.ok /\ p.s = <<>> /\ ValidDate(p.f) /\ (datetime => ValidTime(p.f))
        THEN Ok(IF datetime THEN DateTimeOf(p.f) ELSE NaiveDateOf(p.f))
        ELSE Err("ParseError", ds))

\* `parse_from_str(ds, f1).or_else(|_| parse_from_str(ds, f2)) ..`: the
\* result of the first format that parses, else the last error
RECURSIVE parse_first(_, _, _)
parse_first(ds, formats, datetime) ==
    Bind(parse_from_str(ds, Head(formats), datetime), LAMBDA r :
        IF IsOk(r) \/ Len(formats) = 1 THEN r
        ELSE parse_first(ds, Tail(formats), datetime))

(***************************************************************************)
(* The strict map extractors.  Each takes the map by mutable reference:    *)
(* the model returns the result together with the map as the call leaves   *)
(* it, [res |-> Result, m |-> map].                                        *)
(***************************************************************************)
\* m.remove(k).ok_or_else(|| Error::MissingKey(k.into()))
\* the entry looked up with get, not taken with remove
extract_key_get(m, k) ==
    IF k \in DOMAIN m THEN [res |-> Ok(m[k]), m |-> m]
    ELSE [res |-> Err("MissingKey", k), m |-> m]

extract_key(m, k) ==
    IF k \in DOMAIN m THEN [res |-> Ok(m[k]), m |-> Without(m, k)]
    ELSE [res |-> Err("MissingKey", k), m |-> m]

\* gen_extract!(name, variant, type)
gen_extract(m, k, variant) ==
    Bind(extract_key(m, k), LAMBDA e :
        IF ~IsOk(e.res) THEN e
        ELSE IF e.res.val.t = variant THEN [res |-> Ok(e.res.val.v), m |-> e.m]
        ELSE [res |-> Err("InvalidFormatFor", k), m |-> e.m])

extract_array(m, k) == gen_extract(m, k, "Array")
extract_int(m, k) == gen_extract(m, k, "Integer")
extract_string(m, k) == gen_extract(m, k, "Text")

\* extract_string(m, k).and_then(|ds| parse(ds).map_err(|_| MalformedDate(ds)))
extract_parsed(m, k, formats, datetime) ==
    Bind(extract_string(m, k), LAMBDA e :
        IF ~IsOk(e.res) THEN e
        ELSE Bind(parse_first(e.res.val, formats, datetime), LAMBDA d :
            [res |-> IF IsOk(d) THEN d ELSE Err("MalformedDate", e.res.val), m |-> e.m]))

extract_date(m, k) == extract_parsed(m, k, <<FormatF>>, FALSE)
extract_isodatetime(m, k) == extract_parsed(m, k, IsoFormats, TRUE)

\* to_strmap(desc, v): a Value::Map whose keys are all Value::Text becomes a
\* string-keyed map; one other key fails the whole conversion.
to_strmap(desc, v) ==
    IF v.t # "Map" THEN Err("InvalidFormatFor", desc)
    ELSE IF \E kv \in DOMAIN v.v : kv.t # "Text" THEN Err("MalformedStringMap", "")
    ELSE Ok([k \in {kv.v : kv \in DOMAIN v.v} |-> v.v[Text(k)]])

extract_string_map(m, k) ==
    Bind(extract_key(m, k), LAMBDA e :
        IF ~IsOk(e.res) THEN e ELSE [res |-> to_strmap(k, e.res.val), m |-> e.m])

\* `x as usize` for an i128 x: the low WordBits bits, read as unsigned
as_usize(n) == n % (2 ^ WordBits)

\* `extract_int(&mut values, k)? as usize`
extract_usize(m, k) ==
    Bind(extract_int(m, k), LAMBDA e :
        IF IsOk(e.res) THEN [res |-> Ok(as_usize(e.res.val)), m |-> e.m] ELSE e)

\* map_empty! left out
map_empty_skipped(m, ok) == ok

\* map_empty!(m)
map_empty(m, ok) == IF ~is_empty(m) THEN Err("SpuriousData", m) ELSE ok

(***************************************************************************)
(* The entity decoders.  A decoder in progress is the first error met      *)
(* (NoErr while there is none), the map as the extractions so far have     *)
(* left it, and the fields bound so far.  The body of a decoder is the     *)
(* list of its `let field = extract_x(&mut values, key)?;` lines, as       *)
(* <<field, key, extractor>>.                                              *)
(***************************************************************************)
NoErr == [tag |-> "None", val |-> 0]
Start(m) == [err |-> NoErr, m |-> m, out |-> [x \in {} |-> 0]]
Failed(st) == st.err.tag # "None"

extract(x, m, k) ==
    CASE x = "string" -> extract_string(m, k)
      [] x = "date" -> extract_date(m, k)
      [] x = "isodatetime" -> extract_isodatetime(m, k)
      [] x = "usize" -> extract_usize(m, k)
      [] x = "string_map" -> extract_string_map(m, k)

\* `let f = extract_x(&mut values, k)?;`
Field(st, f, k, x) ==
    Bind(extract(x, st.m, k), LAMBDA e :
        IF IsOk(e.res) THEN [err |-> NoErr, m |-> e.m, out |-> Put(st.out, f, e.res.val)]
        ELSE [err |-> e.res, m |-> e.m, out |-> st.out])

\* `let name = if let Ok(nm) = extract_string(&mut values, "nm") { NAAT }
\*  else if let Ok(ma) = extract_string(&mut values, "ma") { RAT }
\*  else { return Err(MissingKey("ma or nm in test")) }`: a failed attempt
\* leaves the map as the extractor left it and its error is dropped.
TestName_select(st) ==
    Bind(extract_string(st.m, "nm"), LAMBDA e1 :
        IF IsOk(e1.res)
        THEN [err |-> NoErr, m |-> e1.m,
              out |-> Put(st.out, "name", [variant |-> "NAAT", name |-> e1.res.val])]
        ELSE Bind(extract_string(e1.m, "ma"), LAMBDA e2 :
            IF IsOk(e2.res)
            THEN [err |-> NoErr, m |-> e2.m,
                  out |-> Put(st.out, "name", [variant |-> "RAT", device_id |-> e2.res.val])]
            ELSE [err |-> Err("MissingKey", "ma or nm in test"), m |-> e2.m,
                  out |-> st.out]))

Line(st, line) ==
    IF line[3] = "TestName" THEN TestName_select(st)
    ELSE Field(st, line[1], line[2], line[3])

\* the lines in order; `?` returns at the first error
RECURSIVE Lines(_, _)
Lines(st, lines) ==
    IF lines = <<>> THEN st
    ELSE Bind(Line(st, Head(lines)), LAMBDA n :
        IF Failed(n) THEN n ELSE Lines(n, Tail(lines)))

\* impl TryFrom<BTreeMap<String, Value>> for Recovery
RecoveryLines ==
    <<<<"cert_id", "ci", "string">>,
      <<"country", "co", "string">>,
      <<"diagnosed", "fr", "date">>,
      <<"disease", "tg", "string">>,
      <<"issuer", "is", "string">>,
      <<"valid_from", "df", "date">>,
      <<"valid_until", "du", "date">>>>

\* impl TryFrom<BTreeMap<String, Value>> for Test
TestLines ==
    <<<<"cert_id", "ci", "string">>,
      <<"collect_ts", "sc", "isodatetime">>,
      <<"country", "co", "string">>,
      <<"disease", "tg", "string">>,
      <<"issuer", "is", "string">>,
      <<"name", "nm | ma", "TestName">>,
      <<"result", "tr", "string">>,
      <<"test_type", "tt", "string">>,
      <<"testing_centre", "tc", "string">>>>

\* impl TryFrom<BTreeMap<String, Value>> for Vaccine
VaccineLines ==
    <<<<"cert_id", "ci", "string">>,
      <<"country", "co", "string">>,
      <<"date", "dt", "date">>,
      <<"disease", "tg", "string">>,
      <<"dose_number", "dn", "usize">>,
      <<"dose_total", "sd", "usize">>,
      <<"issuer", "is", "string">>,
      <<"market_auth", "ma", "string">>,
      <<"product", "mp", "string">>,
      <<"prophylaxis_kind", "vp", "string">>>>

LinesOf(variant) ==
    CASE variant = "Recovery" -> RecoveryLines
      [] variant = "Test" -> TestLines
      [] variant = "Vaccine" -> VaccineLines

\* Recovery::try_from, Test::try_from, Vaccine::try_from: the lines, then
\* `let gp = T { .. }; map_empty!(values); Ok(gp)`
\* map_empty! ahead of the extractions
Entity_try_from_leftover_first(variant, m) ==
    IF ~(DOMAIN m \subseteq
             ({LinesOf(variant)[i][2] : i \in 1..Len(LinesOf(variant))} \cup {"nm", "ma"}))
    THEN Err("SpuriousData", m)
    ELSE Bind(Lines(Start(m), LinesOf(variant)), LAMBDA st :
        IF Failed(st) THEN st.err ELSE map_empty(st.m, Ok(st.out)))

Entity_try_from(variant, m) ==
    Bind(Lines(Start(m), LinesOf(variant)), LAMBDA st :
        IF Failed(st) THEN st.err ELSE map_empty(st.m, Ok(st.out)))

Recovery_try_from(m) == Entity_try_from("Recovery", m)
Test_try_from(m) == Entity_try_from("Test", m)
Vaccine_try_from(m) == Entity_try_from("Vaccine", m)

\* every entry wrapped as CertInfo::Recovery
CertInfo_recovery(variant, x) == [variant |-> "Recovery", v |-> x]

\* enum CertInfo
CertInfo(variant, x) == [variant |-> variant, v |-> x]

\* `to_strmap(desc, v).and_then(T::try_from).map(CertInfo::T)`
Entry(desc, variant, v) ==
    Bind(to_strmap(desc, v), LAMBDA sm :
        IF ~IsOk(sm) THEN sm
        ELSE Bind(Entity_try_from(variant, sm.val), LAMBDA r :
            IF IsOk(r) THEN Ok(CertInfo(variant, r.val)) ELSE r))

\* `.into_iter().map(..).collect::<Result<_>>()`: the elements in order, or
\* the error of the first element that fails.
RECURSIVE Collect(_, _, _)
Collect(arr, desc, variant) ==
    IF arr = <<>> THEN Ok(<<>>)
    ELSE Bind(Entry(desc, variant, Head(arr)), LAMBDA h :
        IF ~IsOk(h) THEN h
        ELSE Bind(Collect(Tail(arr), desc, variant), LAMBDA t :
            IF ~IsOk(t) THEN t ELSE Ok(<<h.val>> \o t.val)))

\* the arms of `let entries = if let Ok(rs) = extract_array(.., "r") {..}
\* else if let Ok(ts) = extract_array(.., "t") {..} else if let Ok(vs) =
\* extract_array(.., "v") {..} else { return Err(MissingKey(..)) }`
EntryArms ==
    <<<<"r", "recovery entry", "Recovery">>,
      <<"t", "test entry", "Test">>,
      <<"v", "vaccine entry", "Vaccine">>>>

\* the first arm whose extract_array succeeds, with the array and the map as
\* the attempts so far have left it; arm 0 when none does
RECURSIVE Entries_arm(_, _)

\* the arm found, with the arrays of the other arms removed from the map too
Entries_arm_drain(m, i) ==
    IF i > Len(EntryArms) THEN [arm |-> 0, arr |-> <<>>, m |-> m]
    ELSE Bind(extract_array(m, EntryArms[i][1]), LAMBDA e :
        IF IsOk(e.res)
        THEN [arm |-> i, arr |-> e.res.val,
              m |-> [k \in DOMAIN e.m \ {"r", "t", "v"} |-> e.m[k]]]
        ELSE Entries_arm(e.m, i + 1))

Entries_arm(m, i) ==
    IF i > Len(EntryArms) THEN [arm |-> 0, arr |-> <<>>, m |-> m]
    ELSE Bind(extract_array(m, EntryArms[i][1]), LAMBDA e :
        IF IsOk(e.res) THEN [arm |-> i, arr |-> e.res.val, m |-> e.m]
        ELSE Entries_arm(e.m, i + 1))

\* no array found: empty entries instead of the error
Entries_select_default(st) ==
    Bind(Entries_arm(st.m, 1), LAMBDA a :
        IF a.arm = 0 THEN [err |-> NoErr, m |-> a.m, out |-> Put(st.out, "entries", <<>>)]
        ELSE Bind(Collect(a.arr, EntryArms[a.arm][2], EntryArms[a.arm][3]), LAMBDA c :
            IF IsOk(c) THEN [err |-> NoErr, m |-> a.m, out |-> Put(st.out, "entries", c.val)]
            ELSE [err |-> c, m |-> a.m, out |-> st.out]))

\* a selected array that fails to decode makes way for the next one
Entries_select_fallback(st) ==
    Bind(Entries_arm(st.m, 1), LAMBDA a :
        IF a.arm = 0
        THEN [err |-> Err("MissingKey", "r, t or v (the actual data)"), m |-> a.m,
              out |-> st.out]
        ELSE Bind(Collect(a.arr, EntryArms[a.arm][2], EntryArms[a.arm][3]), LAMBDA c :
            IF IsOk(c) THEN [err |-> NoErr, m |-> a.m, out |-> Put(st.out, "entries", c.val)]
            ELSE Bind(Entries_arm(a.m, a.arm + 1), LAMBDA b :
                IF b.arm = 0 THEN [err |-> c, m |-> a.m, out |-> st.out]
                ELSE Bind(Collect(b.arr, EntryArms[b.arm][2], EntryArms[b.arm][3]), LAMBDA d :
                    IF IsOk(d)
                    THEN [err |-> NoErr, m |-> b.m, out |-> Put(st.out, "entries", d.val)]
                    ELSE [err |-> c, m |-> a.m, out |-> st.out]))))

Entries_select(st) ==
    Bind(Entries_arm(st.m, 1), LAMBDA a :
        IF a.arm = 0
        THEN [err |-> Err("MissingKey", "r, t or v (the actual data)"), m |-> a.m,
              out |-> st.out]
        ELSE Bind(Collect(a.arr, EntryArms[a.arm][2], EntryArms[a.arm][3]), LAMBDA c :
            IF IsOk(c) THEN [err |-> NoErr, m |-> a.m, out |-> Put(st.out, "entries", c.val)]
            ELSE [err |-> c, m |-> a.m, out |-> st.out]))

PassLines ==
    <<<<"date_of_birth", "dob", "string">>,
      <<"ver", "ver", "string">>>>

NamLines ==
    <<<<"surname", "fn", "string">>,
      <<"givenname", "gn", "string">>,
      <<"std_surname", "fnt", "string">>,
      <<"std_givenname", "gnt", "string">>>>

\* the lines of GreenPass::try_from that work on values: dob, ver, the
\* entries, and `let mut nam = extract_string_map(&mut values, "nam")?`
GreenPass_values(m) ==
    Bind(Lines(Start(m), PassLines), LAMBDA s2 :
        IF Failed(s2) THEN s2
        ELSE Bind(Entries_select(s2), LAMBDA s3 :
            IF Failed(s3) THEN s3 ELSE Field(s3, "nam", "nam", "string_map")))

\* impl TryFrom<BTreeMap<String, Value>> for GreenPass: the four names are
\* extracted from nam, and map_empty! is applied to values.
GreenPass_try_from(m) ==
    Bind(GreenPass_values(m), LAMBDA st :
        IF Failed(st) THEN st.err
        ELSE Bind(Lines([err |-> NoErr, m |-> st.out.nam, out |-> Without(st.out, "nam")],
                        NamLines),
                  LAMBDA n :
            IF Failed(n) THEN n.err ELSE map_empty(st.m, Ok(n.out))))

(***************************************************************************)
(* HealthCert::try_from, from the decoded envelope on.  A byte string is   *)
(* modelled by the CBOR item it encodes (Bytes(item)), or by               *)
(* Bytes(Garbage) when it encodes none.                                    *)
(***************************************************************************)
Garbage == [t |-> "Garbage", v |-> 0]

\* serde_cbor::from_slice::<RawCert>(bys): a map whose keys are all integers
from_slice_RawCert(item) ==
    IF item.t = "Map" /\ \A kv \in DOMAIN item.v : kv.t = "Integer"
    THEN Ok([k \in {kv.v : kv \in DOMAIN item.v} |-> item.v[Integer(k)]])
    ELSE Err("MalformedCBOR", "")

\* `ts as i64` for an i128 ts: the low WordBits bits, read as signed
as_i64(n) == ((n + 2 ^ (WordBits - 1)) % (2 ^ WordBits)) - 2 ^ (WordBits - 1)

\* the largest second chrono can represent, below i64::MAX (scaled like i64)
MaxTimestamp == 2 ^ (WordBits - 2)

Panic == [tag |-> "Panic", val |-> 0]

\* Utc.timestamp(secs, 0): panics outside the representable range
Utc_timestamp(secs) ==
    IF secs >= 0 - MaxTimestamp /\ secs <= MaxTimestamp THEN Ok(secs) ELSE Panic

\* the order of Value keys in a BTreeMap<Value, Value>: by major type, then
\* integers by magnitude (the keys used here differ in one of the two)
KeyRank(kv) ==
    IF kv.t = "Integer" THEN (IF kv.v >= 0 THEN <<0, kv.v>> ELSE <<1, 0 - kv.v>>)
    ELSE IF kv.t = "Bytes" THEN <<2, 0>>
    ELSE IF kv.t = "Text" THEN <<3, 0>>
    ELSE <<4, 0>>
KeyLess(a, b) ==
    KeyRank(a)[1] < KeyRank(b)[1]
    \/ (KeyRank(a)[1] = KeyRank(b)[1] /\ KeyRank(a)[2] < KeyRank(b)[2])

\* hcmap.into_iter().map(|(_, v)| v): the values in the order of their keys
RECURSIVE ValuesInOrder(_)
ValuesInOrder(f) ==
    IF DOMAIN f = {} THEN <<>>
    ELSE Bind(CHOOSE x \in DOMAIN f : \A y \in DOMAIN f \ {x} : KeyLess(x, y), LAMBDA k :
        <<f[k]>> \o ValuesInOrder([y \in DOMAIN f \ {k} |-> f[y]]))

\* `.map(|(_, v)| to_strmap("hcert", v)).collect::<Result<Vec<_>>>()`
RECURSIVE CollectStrmaps(_)
CollectStrmaps(vs) ==
    IF vs = <<>> THEN Ok(<<>>)
    ELSE Bind(to_strmap("hcert", Head(vs)), LAMBDA h :
        IF ~IsOk(h) THEN h
        ELSE Bind(CollectStrmaps(Tail(vs)), LAMBDA t :
            IF ~IsOk(t) THEN t ELSE Ok(<<h.val>> \o t.val)))

\* `.map(GreenPass::try_from).collect::<Result<Vec<_>>>()`
RECURSIVE CollectPasses(_)
CollectPasses(ms) ==
    IF ms = <<>> THEN Ok(<<>>)
    ELSE Bind(GreenPass_try_from(Head(ms)), LAMBDA h :
        IF ~IsOk(h) THEN h
        ELSE Bind(CollectPasses(Tail(ms)), LAMBDA t :
            IF ~IsOk(t) THEN t ELSE Ok(<<h.val>> \o t.val)))

\* `match cert_map.remove(&k).ok_or_else(|| MissingKey(desc))? {
\*    Value::Integer(ts) => Utc.timestamp(ts as i64, 0),
\*    _ => return Err(InvalidFormatFor { key: desc }) }`
claim_timestamp(cert_map, k, desc) ==
    IF k \notin DOMAIN cert_map THEN Err("MissingKey", desc)
    ELSE IF cert_map[k].t = "Integer" THEN Utc_timestamp(as_i64(cert_map[k].v))
    ELSE Err("InvalidFormatFor", desc)

\* the claims part of HealthCert::try_from: keys 1, 4, 6 and -260 are
\* removed from cert_map in this order; cert_map is not looked at again.
claim_issuer(cert_map) ==
    IF 1 \notin DOMAIN cert_map THEN Ok([some |-> FALSE, v |-> ""])
    ELSE IF cert_map[1].t = "Text" THEN Ok([some |-> TRUE, v |-> cert_map[1].v])
    ELSE Err("InvalidFormatFor", "issuing country")

\* the keys of the -260 map required to be integers
claim_hcerts_integer_keys(cert_map) ==
    IF -260 \notin DOMAIN cert_map THEN Err("MissingKey", "hcert")
    ELSE IF cert_map[-260].t # "Map" THEN Err("InvalidFormatFor", "hcert")
    ELSE IF \E kv \in DOMAIN cert_map[-260].v : kv.t # "Integer" THEN Err("InvalidKey", "")
    ELSE CollectStrmaps(ValuesInOrder(cert_map[-260].v))

claim_hcerts(cert_map) ==
    IF -260 \notin DOMAIN cert_map THEN Err("MissingKey", "hcert")
    ELSE IF cert_map[-260].t = "Map" THEN CollectStrmaps(ValuesInOrder(cert_map[-260].v))
    ELSE Err("InvalidFormatFor", "hcert")

\* the certificate data looked at before the issuer and the timestamps
HealthCert_from_claims_hcert_first(cert_map) ==
    Bind(claim_hcerts(cert_map), LAMBDA hcerts :
    IF ~IsOk(hcerts) THEN hcerts
    ELSE Bind(claim_issuer(cert_map), LAMBDA some_issuer :
    IF ~IsOk(some_issuer) THEN some_issuer
    ELSE Bind(claim_timestamp(cert_map, 4, "expiration timestamp"), LAMBDA expires :
    IF ~IsOk(expires) THEN expires
    ELSE Bind(claim_timestamp(cert_map, 6, "issue timestamp"), LAMBDA created :
    IF ~IsOk(created) THEN created
    ELSE Bind(CollectPasses(hcerts.val), LAMBDA passes :
    IF ~IsOk(passes) THEN passes
    ELSE Ok([some_issuer |-> some_issuer.val, created |-> created.val,
             expires |-> expires.val, passes |-> passes.val]))))))

HealthCert_from_claims(cert_map) ==
    Bind(claim_issuer(cert_map), LAMBDA some_issuer :
    IF ~IsOk(some_issuer) THEN some_issuer
    ELSE Bind(claim_timestamp(cert_map, 4, "expiration timestamp"), LAMBDA expires :
    IF ~IsOk(expires) THEN expires
    ELSE Bind(claim_timestamp(cert_map, 6, "issue timestamp"), LAMBDA created :
    IF ~IsOk(created) THEN created
    ELSE Bind(claim_hcerts(cert_map), LAMBDA hcerts :
    IF ~IsOk(hcerts) THEN hcerts
    ELSE Bind(CollectPasses(hcerts.val), LAMBDA passes :
    IF ~IsOk(passes) THEN passes
    ELSE Ok([some_issuer |-> some_issuer.val, created |-> created.val,
             expires |-> expires.val, passes |-> passes.val]))))))

\* the length check as `cwt_arr.len() < 4`
HealthCert_from_cwt_at_least_4(cwt_arr) ==
    IF Len(cwt_arr) < 4 THEN Err("MalformedCWT", "")
    ELSE IF cwt_arr[3].t # "Bytes" THEN Err("InvalidFormatFor", "root cert")
    ELSE Bind(from_slice_RawCert(cwt_arr[3].v), LAMBDA raw :
        IF ~IsOk(raw) THEN raw ELSE HealthCert_from_claims(raw.val))

\* HealthCert::try_from after `let Cwt(cwt_arr) = serde_cbor::from_slice(..)?`
HealthCert_from_cwt(cwt_arr) ==
    IF Len(cwt_arr) # 4 THEN Err("MalformedCWT", "")
    ELSE IF cwt_arr[3].t # "Bytes" THEN Err("InvalidFormatFor", "root cert")
    ELSE Bind(from_slice_RawCert(cwt_arr[3].v), LAMBDA raw :
        IF ~IsOk(raw) THEN raw ELSE HealthCert_from_claims(raw.val))

(***************************************************************************)
(* The inputs: the maps of the samples of tests/validation.rs, and the     *)
(* keys and values the edits draw from.                                    *)
(***************************************************************************)
RecoverySample ==
    [ci |-> Text("URN:UVCI:01:AT:858CC18CFCF5965EF82F60E493349AA5#K"),
     co |-> Text("AT"), fr |-> Text("2021-02-20"), tg |-> Text("840539006"),
     is |-> Text("Ministry of Health, Austria"),
     df |-> Text("2021-04-04"), du |-> Text("2021-10-04")]

PcrSample ==
    [ci |-> Text("URN:UVCI:01:AT:B5921A35D6A0D696421B3E2462178297#I"),
     sc |-> Text("2021-02-20T12:34:56Z"), co |-> Text("AT"),
     tg |-> Text("840539006"), is |-> Text("Ministry of Health, Austria"),
     nm |-> Text("Roche LightCycler qPCR"), tr |-> Text("260415000"),
     tt |-> Text("LP6464-4"), tc |-> Text("Testing center Vienna 1")]

AntigenSample ==
    [ci |-> Text("URN:UVCI:01:AT:71EE2559DE38C6BF7304FB65A1A451EC#3"),
     sc |-> Text("2021-02-20T12:34:56Z"), co |-> Text("AT"),
     tg |-> Text("840539006"), is |-> Text("Ministry of Health, Austria"),
     ma |-> Text("1232"), tr |-> Text("260415000"),
     tt |-> Text("LP217198-3"), tc |-> Text("Testing center Vienna 1")]

VaccineSample ==
    [ci |-> Text("URN:UVCI:01:AT:10807843F94AEE0EE5093FBC254BD813#B"),
     co |-> Text("AT"), dt |-> Text("2021-02-20"), tg |-> Text("840539006"),
     dn |-> Integer(1), sd |-> Integer(2),
     is |-> Text("Ministry of Health, Austria"), ma |-> Text("ORG-100030215"),
     mp |-> Text("EU/1/20/1528"), vp |-> Text("1119305005")]

NamSample ==
    [fn |-> Text("Musterfrau"), gn |-> Text("Gabriele"),
     fnt |-> Text("MUSTERFRAU"), gnt |-> Text("GABRIELE")]

PassSample(arr, entity) ==
    (arr :> Array(<<StrMap(entity)>>))
    @@ [dob |-> Text("1998-02-26"), ver |-> Text("1.2.1"), nam |-> StrMap(NamSample)]

ClaimsSample(pass) ==
    (1 :> Text("AT")) @@ (4 :> Integer(20)) @@ (6 :> Integer(10))
    @@ (-260 :> Map(Integer(1) :> StrMap(pass)))

(***************************************************************************)
(* HealthCert::try_from, from the text to the envelope.  A text is a       *)
(* sequence of characters.  The decompressed data, like every byte string  *)
(* that holds CBOR, is modelled by the item it encodes.                    *)
(***************************************************************************)
HCID == <<"H", "C", "1", ":">>

\* the prefix compared without regard to case
LowerCase(c) == CASE c = "H" -> "h" [] c = "C" -> "c" [] OTHER -> c
starts_with_any_case(data, prefix) ==
    /\ Len(data) >= Len(prefix)
    /\ \A i \in 1..Len(prefix) : LowerCase(data[i]) = LowerCase(prefix[i])

\* data.starts_with(prefix)
starts_with(data, prefix) ==
    Len(data) >= Len(prefix) /\ SubSeq(data, 1, Len(prefix)) = prefix

\* char::is_whitespace, on the characters used here
is_whitespace(c) == c \in {" ", "\n", "\t"}

RECURSIVE trim_start(_)
trim_start(cs) ==
    IF cs # <<>> /\ is_whitespace(Head(cs)) THEN trim_start(Tail(cs)) ELSE cs

RECURSIVE trim_end(_)
trim_end(cs) ==
    IF cs # <<>> /\ is_whitespace(cs[Len(cs)])
    THEN trim_end(SubSeq(cs, 1, Len(cs) - 1)) ELSE cs

\* only the leading whitespace trimmed
trim_start_only(cs) == trim_start(cs)

\* str::trim
trim(cs) == trim_end(trim_start(cs))

\* the base45 alphabet; a character's value is its position, from 0
Base45Alphabet ==
    <<"0", "1", "2", "3", "4", "5", "6", "7", "8", "9",
      "A", "B", "C", "D", "E", "F", "G", "H", "I", "J", "K", "L", "M",
      "N", "O", "P", "Q", "R", "S", "T", "U", "V", "W", "X", "Y", "Z",
      " ", "$", "%", "*", "+", "-", ".", "/", ":">>
Base45Value(c) ==
    IF \E i \in 1..45 : Base45Alphabet[i] = c
    THEN (CHOOSE i \in 1..45 : Base45Alphabet[i] = c) - 1
    ELSE -1

\* the number spelled by a group of two or three characters, -1 when a
\* character is outside the alphabet or the number does not fit the bytes
Base45Group(g) ==
    IF \E i \in 1..Len(g) : Base45Value(g[i]) < 0 THEN -1
    ELSE Bind(Base45Value(g[1]) + 45 * Base45Value(g[2])
              + (IF Len(g) = 3 THEN 2025 * Base45Value(g[3]) ELSE 0), LAMBDA n :
        IF n >= (IF Len(g) = 3 THEN 65536 ELSE 256) THEN -1 ELSE n)

\* base45::decode: three characters give two bytes, two trailing characters
\* one byte, one trailing character is an error
RECURSIVE base45_decode(_)
base45_decode(cs) ==
    IF cs = <<>> THEN Ok(<<>>)
    ELSE IF Len(cs) = 1 THEN Err("InvalidBase45", "")
    ELSE IF Len(cs) = 2
    THEN Bind(Base45Group(cs), LAMBDA n :
        IF n < 0 THEN Err("InvalidBase45", "") ELSE Ok(<<n>>))
    ELSE Bind(Base45Group(SubSeq(cs, 1, 3)), LAMBDA n :
        IF n < 0 THEN Err("InvalidBase45", "")
        ELSE Bind(base45_decode(Drop(cs, 3)), LAMBDA t :
            IF ~IsOk(t) THEN t ELSE Ok(<<n \div 256, n % 256>> \o t.val)))

\* COSE headers: label 1 is the algorithm, label 4 the key identifier
Raw(n) == [t |-> "Raw", v |-> n]
Kid == Bytes(Raw(1))
Signature == Bytes(Raw(2))
AlgHeader == Integer(1) :> Integer(-7)
KidHeader == Integer(4) :> Kid

\* a claims map as the CBOR item of the payload
ClaimsItem(cert_map) ==
    Map([kv \in {Integer(k) : k \in DOMAIN cert_map} |-> cert_map[kv.v]])

\* the envelope of the samples: key identifier in the protected header;
\* the envelope of the unprotected-kid sample
EnvelopeProtectedKid(cert_map) ==
    <<Bytes(Map(AlgHeader @@ KidHeader)), Map(EmptyMap), Bytes(ClaimsItem(cert_map)), Signature>>
EnvelopeUnprotectedKid(cert_map) ==
    <<Bytes(Map(AlgHeader)), Map(KidHeader), Bytes(ClaimsItem(cert_map)), Signature>>

\* ZlibDecoder::read_to_end over the byte strings used here: the streams
\* <<1>> .. <<4>> hold documents, any other byte string is no zlib stream
ZlibDecoder_read_to_end(defl) ==
    CASE defl = <<1>> -> Ok(Array(EnvelopeProtectedKid(ClaimsSample(PassSample("r", RecoverySample)))))
      [] defl = <<2>> -> Ok(Array(<<>>))
      [] defl = <<3>> -> Ok(Garbage)
      [] defl = <<4>> -> Ok(Array(EnvelopeProtectedKid(
                             Put(ClaimsSample(PassSample("v", VaccineSample)), 4,
                                 Integer(2 ^ (WordBits - 1) - 1)))))
      [] OTHER -> Err("IOError", "")

\* serde_cbor::from_slice::<Cwt>(&data): an array of any items
from_slice_Cwt(item) ==
    IF item.t = "Array" THEN Ok(item.v) ELSE Err("MalformedCBOR", "")

\* HealthCert::try_from(data: &str)
HealthCert_try_from(data) ==
    IF ~starts_with(data, HCID) THEN Err("MissingHCID", "")
    ELSE Bind(base45_decode(trim(Drop(data, Len(HCID)))), LAMBDA defl :
    IF ~IsOk(defl) THEN defl
    ELSE Bind(ZlibDecoder_read_to_end(defl.val), LAMBDA inflated :
    IF ~IsOk(inflated) THEN inflated
    ELSE Bind(from_slice_Cwt(inflated.val), LAMBDA cwt :
    IF ~IsOk(cwt) THEN cwt ELSE HealthCert_from_cwt(cwt.val))))

\* pub fn parse
parse(data) == HealthCert_try_from(data)

\* the decoders that take a map, and all the decoders
MapKinds == {"Recovery", "Test", "Vaccine", "GreenPass", "HealthCert"}
Kinds == MapKinds \cup {"Cwt", "Text"}

Samples(k) ==
    CASE k = "Recovery" -> {RecoverySample}
      [] k = "Test" -> {PcrSample, AntigenSample}
      [] k = "Vaccine" -> {VaccineSample}
      [] k = "GreenPass" -> {PassSample("r", RecoverySample), PassSample("t", AntigenSample),
                             PassSample("v", VaccineSample)}
      [] k = "HealthCert" -> {ClaimsSample(PassSample("r", RecoverySample))}
      [] k = "Cwt" -> {EnvelopeProtectedKid(ClaimsSample(PassSample("v", VaccineSample))),
                       EnvelopeUnprotectedKid(ClaimsSample(PassSample("v", VaccineSample))),
                       <<>>}
      [] k = "Text" -> {HCID \o <<"1", "0">>, HCID \o <<"2", "0">>, HCID \o <<"3", "0">>,
                        HCID \o <<"4", "0">>, <<"h", "c", "1", ":", "1", "0">>, <<>>}

RecoveryKeys == {"ci", "co", "fr", "tg", "is", "df", "du"}
TestKeys == {"ci", "sc", "co", "tg", "is", "nm", "ma", "tr", "tt", "tc"}
VaccineKeys == {"ci", "co", "dt", "tg", "dn", "sd", "is", "ma", "mp", "vp"}
PassKeys == {"dob", "ver", "r", "t", "v", "nam"}
NamKeys == {"fn", "gn", "fnt", "gnt"}
ClaimKeys == {1, 4, 6, -260}

\* the keys an edit can touch: the decoder's own and some it does not know
KeysOf(k) ==
    CASE k = "Recovery" -> RecoveryKeys \cup {"xx", "sc"}
      [] k = "Test" -> TestKeys \cup {"xx"}
      [] k = "Vaccine" -> VaccineKeys \cup {"xx"}
      [] k = "GreenPass" -> PassKeys \cup {"xx"}
      [] k = "HealthCert" -> ClaimKeys \cup {2}

Scalars ==
    {Text("AT"), Text("2021-02-20"),
     Text("2021-02-20T12:34:56.000+00:00"), Text("2021-02-20T13:34:56+01"),
     Integer(2), Integer(-1), Array(<<>>)}

PassValues ==
    {Text("AT"), Integer(2),
     Array(<<>>), Array(<<Integer(2)>>),
     Array(<<Map(Integer(1) :> Text("AT")), Integer(2)>>),
     Array(<<StrMap(RecoverySample)>>),
     Array(<<StrMap(PcrSample)>>),
     Array(<<StrMap(RecoverySample), StrMap(Without(RecoverySample, "ci"))>>),
     Array(<<StrMap(VaccineSample), StrMap(Put(VaccineSample, "dn", Integer(2)))>>),
     StrMap(NamSample),
     StrMap(Put(NamSample, "xx", Text("AT"))),
     StrMap(Without(NamSample, "gn")),
     Map(Integer(1) :> Text("AT"))}

ClaimValues ==
    {Text("AT"), Integer(2), Integer(2 ^ (WordBits - 1) - 1), Integer(2 ^ WordBits - 1),
     Map(EmptyMap),
     Map(Integer(1) :> Integer(2)),
     Map(Integer(1) :> StrMap(PassSample("v", VaccineSample))),
     Map((Integer(1) :> StrMap(PassSample("t", PcrSample)))
         @@ (Integer(2) :> StrMap(PassSample("r", RecoverySample)))),
     Map(Text("1.2.1") :> StrMap(Put(PassSample("r", RecoverySample), "xx", Integer(2)))),
     Map((Text("AT") :> StrMap(PassSample("r", RecoverySample)))
         @@ (Integer(-1) :> StrMap(PassSample("v", VaccineSample)))),
     Map((Integer(1) :> StrMap(Put(PassSample("r", RecoverySample), "xx", Integer(2))))
         @@ (Integer(2) :> Integer(2))),
     Map((Integer(1) :> StrMap(Put(PassSample("r", RecoverySample), "xx", Integer(2))))
         @@ (Integer(2) :> StrMap(Without(PassSample("v", VaccineSample), "ver"))))}

ValuesOf(k) ==
    CASE k \in {"Recovery", "Test", "Vaccine"} -> Scalars
      [] k = "GreenPass" -> PassValues
      [] k = "HealthCert" -> ClaimValues

\* the envelope around a claims map: protected header, unprotected header,
\* payload, signature
Envelope(cert_map) ==
    <<Bytes(Garbage), Map(EmptyMap),
      Bytes(Map([kv \in {Integer(k) : k \in DOMAIN cert_map} |-> cert_map[kv.v]])),
      Bytes(Garbage)>>

\* the elements an edit can put into an envelope, the characters it can
\* put into a text
ElemValues ==
    {Integer(2), Map(EmptyMap), Bytes(Garbage),
     Bytes(ClaimsItem(ClaimsSample(PassSample("t", PcrSample))))}
TextChars == {" ", "\n", "1", "H"}

InsertAt(cs, i, c) == SubSeq(cs, 1, i) \o <<c>> \o SubSeq(cs, i + 1, Len(cs))
RemoveAt(cs, i) == SubSeq(cs, 1, i - 1) \o SubSeq(cs, i + 1, Len(cs))

\* the decoder of kind k applied to the input m
Decode(k, m) ==
    CASE k \in {"Recovery", "Test", "Vaccine"} -> Entity_try_from(k, m)
      [] k = "GreenPass" -> GreenPass_try_from(m)
      [] k = "HealthCert" -> HealthCert_from_cwt(Envelope(m))
      [] k = "Cwt" -> HealthCert_from_cwt(m)
      [] k = "Text" -> parse(m)

(***************************************************************************)
(* The state: the decoder under test (kind), the map handed to it          *)
(* (values), what it returned (result), what it returned for the map       *)
(* before the last edit (prevResult), the last edit and how many edits     *)
(* were made.                                                              *)
(***************************************************************************)
Init ==
    /\ kind \in Kinds
    /\ values \in Samples(kind)
    /\ result = Decode(kind, values)
    /\ prevResult = result
    /\ last = [op |-> "load"]
    /\ edits = 0

Edit(m, op, k) ==
    /\ edits < MaxEdits
    /\ values' = m
    /\ result' = Decode(kind, m)
    /\ prevResult' = result
    /\ last' = [op |-> op, key |-> k]
    /\ edits' = edits + 1
    /\ UNCHANGED kind

\* a key the map does not have is added, and the map decoded
AddKey ==
    /\ kind \in MapKinds
    /\ \E k \in KeysOf(kind) \ DOMAIN values : \E x \in ValuesOf(kind) :
           Edit(Put(values, k, x), "add", k)

\* a key of the map is removed, and the map decoded
RemoveKey ==
    /\ kind \in MapKinds
    /\ \E k \in DOMAIN values : Edit(Without(values, k), "remove", k)

\* an element of the envelope is replaced, one is appended, the last one is
\* dropped, and the envelope decoded
SetElem ==
    /\ kind = "Cwt"
    /\ \E i \in 1..Len(values) : \E x \in ElemValues :
           Edit([values EXCEPT ![i] = x], "set", i)

AppendElem ==
    /\ kind = "Cwt"
    /\ \E x \in ElemValues : Edit(Append(values, x), "append", Len(values) + 1)

DropElem ==
    /\ kind = "Cwt"
    /\ values # <<>>
    /\ Edit(SubSeq(values, 1, Len(values) - 1), "drop", Len(values))

\* a character is inserted at the front of the text, after its fourth
\* character or at its end, or the first or last character is removed, and
\* the text parsed
InsertChar ==
    /\ kind = "Text"
    /\ \E i \in {0, 4, Len(values)} : \E c \in TextChars :
           /\ i <= Len(values)
           /\ Edit(InsertAt(values, i, c), "insert", <<i, c>>)

RemoveChar ==
    /\ kind = "Text"
    /\ \E i \in {1, Len(values)} :
           /\ i <= Len(values)
           /\ Edit(RemoveAt(values, i), "delete", i)

Next ==
    \/ AddKey
    \/ RemoveKey
    \/ SetElem
    \/ AppendElem
    \/ DropElem
    \/ InsertChar
    \/ RemoveChar

Spec == Init /\ [][Next]_vars

(***************************************************************************)
(* Properties.                                                             *)
(***************************************************************************)
Added == last.op = "add"
Removed == last.op = "remove"
IsSpurious(r, leftover) ==
    r.tag = "Err" /\ r.val.kind = "SpuriousData" /\ r.val.payload = leftover
IsMissing(r, desc) ==
    r.tag = "Err" /\ r.val.kind = "MissingKey" /\ r.val.payload = desc
SameResult(a, b) ==
    /\ a.tag = b.tag
    /\ a.tag = "Ok" => a.val = b.val
    /\ a.tag = "Err" => a.val.kind = b.val.kind /\ a.val.payload = b.val.payload
Only(m, k) == [x \in {k} |-> m[x]]

\* C1: a Recovery or Vaccine map that decoded successfully, with one more
\* key added (a key outside the entity's field set, any value), fails with
\* SpuriousData, and the error carries exactly the added key and value.
C1_ExtraKeyIsLeftover ==
    (/\ kind \in {"Recovery", "Vaccine"}
     /\ Added
     /\ IsOk(prevResult)
     /\ last.key \notin (IF kind = "Recovery" THEN RecoveryKeys ELSE VaccineKeys))
    => IsSpurious(result, Only(values, last.key))

C1_Witness ==
    /\ kind = "Vaccine"
    /\ Added
    /\ last.key = "xx"
    /\ values["xx"] = Integer(2)
    /\ IsOk(prevResult)
    /\ IsSpurious(result, Only(values, "xx"))

\* C2: a Test map that decoded successfully, with one more key added (the
\* other test-name key included, any value), fails with SpuriousData; it
\* never still succeeds.
C2_TestExtraKeyIsLeftover ==
    (kind = "Test" /\ Added /\ IsOk(prevResult))
    => (~IsOk(result) /\ IsErr(result, "SpuriousData"))

\* C3: a pass map that decoded successfully, with one more top-level key
\* added (any key the decode did not consume, any value), fails with
\* SpuriousData.
C3_PassExtraKeyIsLeftover ==
    (kind = "GreenPass" /\ Added /\ IsOk(prevResult))
    => (~IsOk(result) /\ IsErr(result, "SpuriousData"))

\* the map under nam has a key other than fn, gn, fnt, gnt
NamHasUnknownKey(m) ==
    /\ "nam" \in DOMAIN m
    /\ m["nam"].t = "Map"
    /\ \E kv \in DOMAIN m["nam"].v : kv.t = "Text" /\ kv.v \notin NamKeys

\* C4: a pass whose nam map has a key other than fn, gn, fnt, gnt (and that
\* is otherwise a valid pass: it decodes once nam holds the four names only)
\* fails with SpuriousData instead of returning a GreenPass.
C4_NamFullyConsumed ==
    (/\ kind = "GreenPass"
     /\ NamHasUnknownKey(values)
     /\ IsOk(GreenPass_try_from(Put(values, "nam", StrMap(NamSample)))))
    => (~IsOk(result) /\ IsErr(result, "SpuriousData"))

\* C5: a payload whose claims map has an integer key other than 1, 4, 6
\* and -260 is rejected.
C5_ClaimsFullyConsumed ==
    (kind = "HealthCert" /\ ~(DOMAIN values \subseteq ClaimKeys)) => ~IsOk(result)

\* the arrays among r, t, v of a pass map, and the first in the order r, t, v
ArrayKeys(m) == {k \in {"r", "t", "v"} : k \in DOMAIN m /\ m[k].t = "Array"}
Priority(k) == CASE k = "r" -> 1 [] k = "t" -> 2 [] k = "v" -> 3
FirstArrayKey(m) == CHOOSE k \in ArrayKeys(m) : \A j \in ArrayKeys(m) : Priority(k) <= Priority(j)
VariantOf(k) == CASE k = "r" -> "Recovery" [] k = "t" -> "Test" [] k = "v" -> "Vaccine"

\* the passes of a successful result
PassesOf(k, r) == IF k = "GreenPass" THEN <<r.val>> ELSE r.val.passes
Homogeneous(entries) ==
    \A i \in 1..Len(entries) : entries[i].variant = entries[1].variant

\* C6: the entries of every GreenPass of a successful decode have one
\* variant, and it is the variant of the array (r, t or v) they come from,
\* one entry for each element of that array.
C6_Exclusivity ==
    /\ (kind \in {"GreenPass", "HealthCert"} /\ IsOk(result))
       => \A i \in 1..Len(PassesOf(kind, result)) :
              Homogeneous(PassesOf(kind, result)[i].entries)
    /\ (kind = "GreenPass" /\ IsOk(result))
       => /\ ArrayKeys(values) # {}
          /\ Len(result.val.entries) = Len(values[FirstArrayKey(values)].v)
          /\ \A i \in 1..Len(result.val.entries) :
                 result.val.entries[i].variant = VariantOf(FirstArrayKey(values))

C6_Witness ==
    /\ kind = "GreenPass"
    /\ IsOk(result)
    /\ Added
    /\ last.key = "v"
    /\ Len(result.val.entries) = 2
    /\ result.val.entries[2].variant = "Vaccine"

\* C7: every GreenPass of a successful decode has at least one entry.
C7_EntriesNonEmpty ==
    (kind \in {"GreenPass", "HealthCert"} /\ IsOk(result))
    => \A i \in 1..Len(PassesOf(kind, result)) :
           Len(PassesOf(kind, result)[i].entries) >= 1

IsText(m, k) == k \in DOMAIN m /\ m[k].t = "Text"

\* C8: a pass map with valid dob and ver and none of the keys r, t, v fails
\* with the missing-key error that names the three alternatives.
C8_MissingArray ==
    (/\ kind = "GreenPass"
     /\ IsText(values, "dob") /\ IsText(values, "ver")
     /\ DOMAIN values \cap {"r", "t", "v"} = {})
    => IsMissing(result, "r, t or v (the actual data)")

C8_Witness ==
    /\ kind = "GreenPass"
    /\ Removed
    /\ last.key = "t"
    /\ IsOk(prevResult)
    /\ DOMAIN values = {"dob", "ver", "nam"}
    /\ IsMissing(result, "r, t or v (the actual data)")

\* a pass map with more than one array among r, t, v; the same map without
\* the arrays after the first
SeveralArrays == kind = "GreenPass" /\ Cardinality(ArrayKeys(values)) >= 2
LowerArrays(m) == ArrayKeys(m) \ {FirstArrayKey(m)}
WithoutLower(m) == [k \in DOMAIN m \ LowerArrays(m) |-> m[k]]
Lower(m) == [k \in LowerArrays(m) |-> m[k]]

C10_TestNameSelection ==
    /\ (kind = "Test" /\ IsOk(result) /\ "nm" \in DOMAIN values)
       => /\ result.val.name.variant = "NAAT"
          /\ values["nm"].t = "Text"
          /\ result.val.name.name = values["nm"].v
    /\ (kind = "Test" /\ IsOk(result) /\ "nm" \notin DOMAIN values)
       => /\ result.val.name.variant = "RAT"
          /\ result.val.name.device_id = values["ma"].v
    /\ (/\ kind = "Test"
        /\ DOMAIN values \cap {"nm", "ma"} = {}
        /\ ~Failed(Lines(Start(values), SubSeq(TestLines, 1, 5))))
       => IsMissing(result, "ma or nm in test")

\* the keys a decoder reads and the Value variant it expects under each
ReadKeys(k) ==
    CASE k = "Recovery" -> RecoveryKeys
      [] k = "Test" -> TestKeys
      [] k = "Vaccine" -> VaccineKeys
      [] k = "GreenPass" -> PassKeys
      [] k = "HealthCert" -> ClaimKeys
ExpectedType(k, key) ==
    CASE k = "Vaccine" /\ key \in {"dn", "sd"} -> "Integer"
      [] k = "GreenPass" /\ key \in {"r", "t", "v"} -> "Array"
      [] k = "GreenPass" /\ key = "nam" -> "Map"
      [] k = "HealthCert" /\ key \in {4, 6} -> "Integer"
      [] k = "HealthCert" /\ key = -260 -> "Map"
      [] OTHER -> "Text"

\* an alternative key is read when no alternative before it is in the map
Consulted(k, m, key) ==
    /\ (k = "Test" /\ key = "ma") => "nm" \notin DOMAIN m
    /\ (k = "GreenPass" /\ key = "t") => "r" \notin DOMAIN m
    /\ (k = "GreenPass" /\ key = "v") => DOMAIN m \cap {"r", "t"} = {}

\* the last edit put a wrongly typed value under a key the decoder reads,
\* and nothing else is wrong with the map: it decodes without that key, or
\* with another value under it
OnlyWrongType ==
    /\ kind \in {"Recovery", "Test", "Vaccine", "GreenPass", "HealthCert"}
    /\ Added
    /\ last.key \in ReadKeys(kind)
    /\ Consulted(kind, values, last.key)
    /\ values[last.key].t # ExpectedType(kind, last.key)
    /\ \/ IsOk(prevResult)
       \/ \E x \in ValuesOf(kind) : IsOk(Decode(kind, Put(values, last.key, x)))

\* C11: a wrongly typed value under a key a decoder reads makes the decode
\* fail with the wrong-type error (InvalidFormatFor) naming that key, the
\* alternative keys r, t, v and nm, ma included; the value is neither
\* dropped silently nor reported as a missing key.
C11_WrongTypeReported ==
    OnlyWrongType
    => /\ ~IsOk(result)
       /\ ~IsErr(result, "MissingKey")
       /\ IsErr(result, "InvalidFormatFor")
       /\ kind # "HealthCert" => result.val.payload = last.key

\* the decoders that end in a HealthCert
CertKinds == {"HealthCert", "Cwt", "Text"}

\* C12: whatever the input, integer claims and dose counts of any size
\* included, a decode returns a fully formed HealthCert or an Error; it
\* never panics.
C12_Totality ==
    /\ result.tag \in {"Ok", "Err"}
    /\ (kind \in CertKinds /\ IsOk(result))
       => {"some_issuer", "created", "expires", "passes"} \subseteq DOMAIN result.val

\* the header entries of an envelope: those of the unprotected header map
\* and those of the map encoded in the protected header bytes
Headers(env) ==
    (IF env[2].t = "Map" THEN env[2].v ELSE EmptyMap)
    @@ (IF env[1].t = "Bytes" /\ env[1].v.t = "Map" THEN env[1].v.v ELSE EmptyMap)

\* C13: a successful decode returns the signature metadata of the
\* envelope: the key identifier bytes, the algorithm code and the raw
\* signature bytes (element 3).
C13_SignatureReturned ==
    (kind = "Cwt" /\ IsOk(result))
    => /\ "signature" \in DOMAIN result.val
       /\ result.val.signature.signature = values[4].v
       /\ Integer(4) \in DOMAIN Headers(values)
          => result.val.signature.kid = Headers(values)[Integer(4)].v
       /\ Integer(1) \in DOMAIN Headers(values)
          => result.val.signature.algorithm = Headers(values)[Integer(1)].v

\* an envelope with a protected header map and an unprotected header map,
\* the key identifier in exactly one of them; the same envelope with the
\* key identifier in the other one
KidInOneHeader(env) ==
    /\ Len(env) = 4
    /\ env[1].t = "Bytes" /\ env[1].v.t = "Map" /\ env[2].t = "Map"
    /\ (Integer(4) \in DOMAIN env[1].v.v) # (Integer(4) \in DOMAIN env[2].v)
OtherHeader(h, moved) ==
    IF Integer(4) \in DOMAIN h THEN [kv \in DOMAIN h \ {Integer(4)} |-> h[kv]]
    ELSE h @@ (Integer(4) :> moved)
KidMoved(env) ==
    [env EXCEPT ![1] = Bytes(Map(OtherHeader(env[1].v.v, Headers(env)[Integer(4)]))),
                ![2] = Map(OtherHeader(env[2].v, Headers(env)[Integer(4)]))]

\* C14: two envelopes that differ only in the header that holds the key
\* identifier both decode, to the same key identifier and to HealthCerts
\* equal in every other field.
C14_KidLocationIndependence ==
    (kind = "Cwt" /\ KidInOneHeader(values) /\ IsOk(result))
    => LET other == HealthCert_from_cwt(KidMoved(values))
       IN /\ IsOk(other)
          /\ "signature" \in DOMAIN result.val
          /\ "signature" \in DOMAIN other.val
          /\ result.val.signature.kid = Headers(values)[Integer(4)].v
          /\ other.val.signature.kid = result.val.signature.kid
          /\ other.val = result.val

\* the part of C14 that does not mention the key identifier
C14_RestEqual ==
    (kind = "Cwt" /\ KidInOneHeader(values) /\ IsOk(result))
    => LET other == HealthCert_from_cwt(KidMoved(values))
       IN IsOk(other) /\ other.val = result.val

\* the text begins with the four characters HC1:
HasPrefix(cs) ==
    Len(cs) >= 4 /\ cs[1] = "H" /\ cs[2] = "C" /\ cs[3] = "1" /\ cs[4] = ":"

\* C15: a text whose first four characters are not exactly HC1: fails with
\* MissingHCID, whatever follows; a text that has the prefix never fails
\* with MissingHCID, whatever its decoding error.
C15_MissingPrefix ==
    kind = "Text"
    => /\ ~HasPrefix(values) => (result.tag = "Err" /\ result.val.kind = "MissingHCID")
       /\ HasPrefix(values) => ~IsErr(result, "MissingHCID")

C15_Witness ==
    /\ kind = "Text"
    /\ last.op = "insert"
    /\ last.key[1] = 0
    /\ last.key[2] = " "
    /\ IsOk(prevResult)
    /\ IsErr(result, "MissingHCID")

\* C16: whitespace put before or after the encoded portion does not change
\* the result of the decode: the same HealthCert, or an error of the same
\* kind.
C16_WhitespaceTolerance ==
    (/\ kind = "Text"
     /\ last.op = "insert"
     /\ last.key[1] >= 4
     /\ last.key[2] \in {" ", "\n"}
     /\ HasPrefix(values))
    => /\ result.tag = prevResult.tag
       /\ IsOk(result) => result.val = prevResult.val
       /\ result.tag = "Err" => result.val.kind = prevResult.val.kind

C16_Witness ==
    /\ kind = "Text"
    /\ values = <<"H", "C", "1", ":", " ", "1", "0", "\n">>
    /\ IsOk(result)
    /\ IsOk(prevResult)

\* C17: an envelope array whose length is not 4 fails with MalformedCWT,
\* whatever its elements; an array of length 4 never does.
C17_EnvelopeLength ==
    kind = "Cwt" => ((Len(values) # 4) <=> IsErr(result, "MalformedCWT"))

C17_Witness ==
    /\ kind = "Cwt"
    /\ last.op = "append"
    /\ Len(values) = 5
    /\ IsOk(prevResult)
    /\ IsErr(result, "MalformedCWT")

\* C18: a 4-element envelope with an element of the wrong type (element 0
\* not a byte string, element 1 not a map, element 2 or 3 not a byte string)
\* is rejected, with the wrong-type error for the root certificate when it
\* is element 2.
C18_EnvelopeElementTypes ==
    (/\ kind = "Cwt"
     /\ Len(values) = 4
     /\ \/ values[1].t # "Bytes"
        \/ values[2].t # "Map"
        \/ values[3].t # "Bytes"
        \/ values[4].t # "Bytes")
    => /\ ~IsOk(result)
       /\ values[3].t # "Bytes"
          => (IsErr(result, "InvalidFormatFor") /\ result.val.payload = "root cert")

HasType(m, k, t) == k \in DOMAIN m /\ m[k].t = t
WrongType(m, k, t) == k \in DOMAIN m /\ m[k].t # t

\* C19: in the claims map key 1 is optional (absent: no issuer; text: that
\* issuer; another type: wrong-type error), keys 4, 6 and -260 are
\* mandatory (absent: missing-key error; 4 or 6 not an integer, -260 not a
\* map: wrong-type error), each checked once the keys before it are right;
\* expires and created are the instants at the seconds under keys 4 and 6.
C19_ClaimsDiscipline ==
    kind = "HealthCert"
    => /\ WrongType(values, 1, "Text") => IsErr(result, "InvalidFormatFor")
       /\ ~WrongType(values, 1, "Text")
          => /\ 4 \notin DOMAIN values => IsErr(result, "MissingKey")
             /\ WrongType(values, 4, "Integer") => IsErr(result, "InvalidFormatFor")
             /\ HasType(values, 4, "Integer")
                => /\ 6 \notin DOMAIN values => IsErr(result, "MissingKey")
                   /\ WrongType(values, 6, "Integer") => IsErr(result, "InvalidFormatFor")
                   /\ HasType(values, 6, "Integer")
                      => /\ -260 \notin DOMAIN values => IsErr(result, "MissingKey")
                         /\ WrongType(values, -260, "Map")
                            => IsErr(result, "InvalidFormatFor")
       /\ IsOk(result)
          => /\ result.val.some_issuer.some = (1 \in DOMAIN values)
             /\ 1 \in DOMAIN values => result.val.some_issuer.v = values[1].v
             /\ result.val.expires = values[4].v
             /\ result.val.created = values[6].v

\* C19 for timestamps that neither wrap nor panic
C19_InRange ==
    (/\ kind = "HealthCert"
     /\ \A k \in {4, 6} : HasType(values, k, "Integer")
                          => (values[k].v >= 0 /\ values[k].v <= MaxTimestamp))
    => C19_ClaimsDiscipline

\* C20: in a decoded Vaccine dose_number and dose_total are non-negative
\* and are the integers under dn and sd.
C20_DoseCounts ==
    (kind = "Vaccine" /\ IsOk(result))
    => /\ result.val.dose_number = values["dn"].v
       /\ result.val.dose_total = values["sd"].v
       /\ result.val.dose_number >= 0
       /\ result.val.dose_total >= 0

(***************************************************************************)
(* Field mapping (C21).  The tables below state, per decoder, which source *)
(* key each output field is expected to hold, and what a date or a         *)
(* timestamp string is expected to denote; they are written from the       *)
(* field documentation, independently of the decoders' line tables.        *)
(***************************************************************************)
RecoveryFields ==
    <<<<"ci", "cert_id", "text">>, <<"co", "country", "text">>,
      <<"fr", "diagnosed", "date">>, <<"tg", "disease", "text">>,
      <<"is", "issuer", "text">>, <<"df", "valid_from", "date">>,
      <<"du", "valid_until", "date">>>>

TestFields ==
    <<<<"ci", "cert_id", "text">>, <<"sc", "collect_ts", "timestamp">>,
      <<"co", "country", "text">>, <<"tg", "disease", "text">>,
      <<"is", "issuer", "text">>, <<"tr", "result", "text">>,
      <<"tt", "test_type", "text">>, <<"tc", "testing_centre", "text">>>>

VaccineFields ==
    <<<<"ci", "cert_id", "text">>, <<"co", "country", "text">>,
      <<"dt", "date", "date">>, <<"tg", "disease", "text">>,
      <<"dn", "dose_number", "integer">>, <<"sd", "dose_total", "integer">>,
      <<"is", "issuer", "text">>, <<"ma", "market_auth", "text">>,
      <<"mp", "product", "text">>, <<"vp", "prophylaxis_kind", "text">>>>

FieldsOf(variant) ==
    CASE variant = "Recovery" -> RecoveryFields
      [] variant = "Test" -> TestFields
      [] variant = "Vaccine" -> VaccineFields

Ymd(y, m, d) == [year |-> y, month |-> m, day |-> d]

\* the calendar date a YYYY-MM-DD string denotes
DateDenoted(s) ==
    CASE s = "2021-02-20" -> Ymd(2021, 2, 20)
      [] s = "2021-04-04" -> Ymd(2021, 4, 4)
      [] s = "2021-10-04" -> Ymd(2021, 10, 4)
      [] OTHER -> Ymd(0, 0, 0)

\* the instant a timestamp string denotes, as seconds of 2021-02-20 in UTC
\* and the nanoseconds within the second; -1 for a string that denotes none
InstantDenoted(s) ==
    CASE s \in {"2021-02-20T12:34:56Z", "2021-02-20T12:34:56.000+00:00",
                "2021-02-20T12:34:56+0000", "2021-02-20T13:34:56+01"}
            -> [secs |-> 12 * 3600 + 34 * 60 + 56, nano |-> 0]
      [] OTHER -> [secs |-> -1, nano |-> 0]

\* the instant of a decoded DateTime<FixedOffset>: local time minus offset
InstantOf(dt) ==
    IF Ymd(dt.year, dt.month, dt.day) = Ymd(2021, 2, 20)
    THEN [secs |-> dt.hour * 3600 + dt.minute * 60 + dt.second - dt.offset,
          nano |-> dt.nano]
    ELSE [secs |-> -2, nano |-> dt.nano]

\* field f of the decoded entity e holds what source value v denotes
Holds(e, f, type, v) ==
    CASE type = "text" -> e[f] = v.v
      [] type = "integer" -> e[f] = v.v
      [] type = "date" -> e[f] = DateDenoted(v.v)
      [] type = "timestamp" -> InstantOf(e[f]) = InstantDenoted(v.v)

EntityMapped(variant, e, m, types) ==
    \A i \in 1..Len(FieldsOf(variant)) :
        LET l == FieldsOf(variant)[i]
        IN  l[3] \in types => Holds(e, l[2], l[3], m[l[1]])

AllTypes == {"text", "integer", "date", "timestamp"}

\* the text-keyed map of an array element, by key string
ElemMap(v) == [k \in {kv.v : kv \in DOMAIN v.v} |-> v.v[Text(k)]]

PassMapped(types) ==
    LET gp == result.val
        nam == ElemMap(values["nam"])
        arr == values[FirstArrayKey(values)].v
    IN  /\ gp.date_of_birth = values["dob"].v
        /\ gp.ver = values["ver"].v
        /\ gp.surname = nam["fn"].v
        /\ gp.givenname = nam["gn"].v
        /\ gp.std_surname = nam["fnt"].v
        /\ gp.std_givenname = nam["gnt"].v
        /\ Len(gp.entries) = Len(arr)
        /\ \A i \in 1..Len(arr) :
              EntityMapped(gp.entries[i].variant, gp.entries[i].v, ElemMap(arr[i]), types)

FieldMapping(types) ==
    /\ (kind \in {"Recovery", "Test", "Vaccine"} /\ IsOk(result))
       => EntityMapped(kind, result.val, values, types)
    /\ (kind = "GreenPass" /\ IsOk(result)) => PassMapped(types)

\* C21: every field of a decoded Recovery, Test, Vaccine or GreenPass holds
\* the value of its source key (dob, ver, nam/fn, gn, fnt, gnt; ci, co, fr,
\* tg, is, df, du; ci, sc, co, tg, is, tr, tt, tc; ci, co, dt, tg, dn, sd,
\* is, ma, mp, vp), and the entries keep the order of the source array.
C21_FieldMapping == FieldMapping(AllTypes)

\* C21 for every field but the two dose counts
C21_MappingButDoses == FieldMapping(AllTypes \ {"integer"})

\* a decoded pass of two entries, told apart by their dose numbers
C21_Witness ==
    /\ kind = "GreenPass" /\ IsOk(result)
    /\ Len(result.val.entries) = 2
    /\ result.val.entries[1].v.dose_number # result.val.entries[2].v.dose_number

\* the formats of the list that parse ds, by position
Parsing(ds, formats) ==
    {i \in 1..Len(formats) : IsOk(parse_from_str(ds, formats[i], TRUE))}

FirstParsing(ds, formats) ==
    LET parsing == Parsing(ds, formats)
    IN  CHOOSE i \in parsing : \A j \in parsing : i <= j

\* the three accepted formats, in the order they are tried
AcceptedFormats ==
    <<FormatPlus,
      FormatYmdHMSf(Tz("optional", TRUE, TRUE, TRUE)),
      FormatYmdHMSf(Tz("optional", FALSE, FALSE, TRUE))>>

\* a Test map whose decoding gets as far as parsing the sample time
ReachesSc == kind = "Test" /\ HasType(values, "ci", "Text") /\ HasType(values, "sc", "Text")

\* C22: the string under sc is parsed with the first accepted format, in
\* the fixed order, that parses it; a timestamp with fractional seconds and
\* a colon in its offset and the same timestamp without both decode to the
\* same instant; a string no format parses fails with MalformedDate
\* carrying the string.
C22_SampleTimeFormats ==
    ReachesSc
    => LET ds == values["sc"].v
           parsing == Parsing(ds, AcceptedFormats)
       IN  /\ InstantDenoted(ds).secs >= 0 <=> parsing # {}
           /\ parsing = {}
              => (IsErr(result, "MalformedDate") /\ result.val.payload = ds)
           /\ parsing # {}
              => /\ ~IsErr(result, "MalformedDate")
                 /\ IsOk(result)
                    => /\ Ok(result.val.collect_ts)
                          = parse_from_str(ds, AcceptedFormats[FirstParsing(ds, AcceptedFormats)], TRUE)
                       /\ InstantOf(result.val.collect_ts) = InstantDenoted(ds)

\* a sample time without fractional seconds and without a colon in its
\* offset, which only the second format parses, was put in place of the
\* sample's and decoded to the instant of the one with both
C22_Witness ==
    /\ ReachesSc /\ IsOk(result)
    /\ last.op = "add" /\ last.key = "sc" /\ edits = 2
    /\ values["sc"].v = "2021-02-20T13:34:56+01"
    /\ Parsing(values["sc"].v, AcceptedFormats) = {2}
    /\ result.val.collect_ts.offset = 3600
    /\ InstantOf(result.val.collect_ts) = InstantDenoted("2021-02-20T12:34:56.000+00:00")

\* the same with fractional seconds and a colon, parsed by every format
C22_WitnessFraction ==
    /\ ReachesSc /\ IsOk(result)
    /\ last.op = "add" /\ last.key = "sc" /\ edits = 2
    /\ values["sc"].v = "2021-02-20T12:34:56.000+00:00"
    /\ 1 \in Parsing(values["sc"].v, AcceptedFormats)
    /\ result.val.collect_ts.offset = 0
    /\ InstantOf(result.val.collect_ts) = InstantDenoted("2021-02-20T13:34:56+01")

\* a sample time that no format parses fails with the string
C22_WitnessMalformed ==
    /\ ReachesSc /\ IsErr(result, "MalformedDate") /\ result.val.payload = "2021-02-20"

\* the values of a map under the keys 1..n, in the order of their keys
Rekeyed(f) ==
    LET vs == ValuesInOrder(f)
    IN  [kv \in {Integer(i) : i \in 1..Len(vs)} |-> vs[kv.v]]

HasHcertMap == kind = "HealthCert" /\ HasType(values, -260, "Map")

\* C24: a decoded certificate has exactly one pass per entry of the map
\* under -260, each the decoded value of an entry, and the keys of that map
\* play no part: the same values under other keys decode to the same result.
C24_OnePassPerEntry ==
    HasHcertMap
    => LET hcmap == values[-260].v
       IN  /\ result = Decode("HealthCert", Put(values, -260, Map(Rekeyed(hcmap))))
           /\ IsOk(result)
              => /\ Len(result.val.passes) = Cardinality(DOMAIN hcmap)
                 /\ \A kv \in DOMAIN hcmap : \E i \in 1..Len(result.val.passes) :
                        Ok(result.val.passes[i]) = Decode("GreenPass", ElemMap(hcmap[kv]))

\* two passes decoded from a map with a text key and a negative key
C24_Witness ==
    /\ HasHcertMap /\ IsOk(result) /\ last.op = "add" /\ last.key = -260
    /\ {kv.t : kv \in DOMAIN values[-260].v} = {"Text", "Integer"}
    /\ Len(result.val.passes) = 2
    /\ result.val.passes[1] # result.val.passes[2]

\* C26: a decoded HealthCert holds at least one pass; an empty map under
\* -260 does not decode to a certificate of zero passes.
C26_PassesNonEmpty ==
    (kind \in CertKinds /\ IsOk(result)) => Len(result.val.passes) >= 1

\* C26 for certificates whose -260 map has an entry
C26_NonEmptyMap ==
    (HasHcertMap /\ DOMAIN values[-260].v # {} /\ IsOk(result))
    => Len(result.val.passes) >= 1

\* m2 is m without its entry for k, every other entry untouched
IsWithout(m2, m, k) ==
    /\ DOMAIN m2 = DOMAIN m \ {k}
    /\ \A j \in DOMAIN m2 : m2[j] = m[j]

StringKeyed == kind \in MapKinds \ {"HealthCert"}

\* the key an entity decoder extracts first, with its type
FirstKey == IF kind = "GreenPass" THEN "dob" ELSE "ci"

\* the keys the extractors are tried on: every key of a sample, and after
\* an edit the key it touched, the first key and a key no decoder knows
ProbedKeys ==
    IF last.op = "load" THEN KeysOf(kind) ELSE {last.key, FirstKey, "xx"}

\* C29: extract-required on a map m, a key k and an expected type: k absent
\* gives MissingKey naming k and leaves m as it was; k present with the
\* expected type gives its value and leaves m without k; k present with
\* another type gives the wrong-type error naming k, and k is removed all
\* the same; after a successful extraction a second one of the same key
\* gives MissingKey.
C29_ExtractRequired ==
    StringKeyed
    => /\ \A k \in ProbedKeys : \A variant \in {"Text", "Integer", "Array"} :
            LET e == gen_extract(values, k, variant)
            IN  /\ k \notin DOMAIN values
                   => (e.res = Err("MissingKey", k) /\ e.m = values)
                /\ HasType(values, k, variant)
                   => /\ e.res = Ok(values[k].v)
                      /\ IsWithout(e.m, values, k)
                      /\ gen_extract(e.m, k, variant).res = Err("MissingKey", k)
                /\ WrongType(values, k, variant)
                   => /\ IsErr(e.res, "InvalidFormatFor") /\ e.res.val.payload = k
                      /\ IsWithout(e.m, values, k)
       /\ FirstKey \notin DOMAIN values => result = Err("MissingKey", FirstKey)
       /\ WrongType(values, FirstKey, "Text") => result = Err("InvalidFormatFor", FirstKey)

\* the first key was put back with another type after its removal had made
\* the decode fail with MissingKey, and the decode fails with the
\* wrong-type error
C29_Witness ==
    /\ StringKeyed /\ last.op = "add" /\ last.key = FirstKey
    /\ prevResult = Err("MissingKey", FirstKey)
    /\ WrongType(values, FirstKey, "Text")
    /\ result = Err("InvalidFormatFor", FirstKey)
    /\ gen_extract(values, FirstKey, "Text").m # values

\* what decoding one element of the array under key k comes to
ElemOutcome(k, e) ==
    IF e.t # "Map" THEN "wrong type"
    ELSE IF \E kv \in DOMAIN e.v : kv.t # "Text" THEN "non-textual key"
    ELSE IF ~IsOk(Decode(VariantOf(k), ElemMap(e))) THEN "entity"
    ELSE "ok"

FailingElems(k, arr) == {i \in 1..Len(arr) : ElemOutcome(k, arr[i]) # "ok"}

FirstFailing(k, arr) ==
    LET failing == FailingElems(k, arr)
    IN  CHOOSE i \in failing : \A j \in failing : i <= j

\* a pass map whose decoding gets as far as the entries and finds an array
SelectsArray ==
    /\ kind = "GreenPass"
    /\ HasType(values, "dob", "Text") /\ HasType(values, "ver", "Text")
    /\ ArrayKeys(values) # {}

\* C30: once the array under the first of r, t, v has been selected there
\* is no fallback: if one of its elements is not a map, has a key that is
\* not text, or does not decode as the entity, the pass fails with the
\* error of the first such element, whatever lower-priority arrays hold.
C30_NoFallback ==
    SelectsArray
    => LET k == FirstArrayKey(values)
           arr == values[k].v
           failing == FailingElems(k, arr)
       IN  failing # {}
           => LET e == arr[CHOOSE i \in failing : \A j \in failing : i <= j]
                  o == ElemOutcome(k, e)
              IN  /\ o = "wrong type" => IsErr(result, "InvalidFormatFor")
                  /\ o = "non-textual key" => IsErr(result, "MalformedStringMap")
                  /\ o = "entity" => result = Decode(VariantOf(k), ElemMap(e))

\* a lower-priority array that decodes on its own was in the map when an
\* array that is selected before it and has a failing element was added
C30_Witness ==
    /\ SelectsArray /\ Added /\ last.key = FirstArrayKey(values)
    /\ Cardinality(ArrayKeys(values)) = 2
    /\ FailingElems(last.key, values[last.key].v) # {}
    /\ IsOk(prevResult)
    /\ ~IsOk(result)

\* the same with the first failure in the second element of two
C30_WitnessSecond ==
    /\ C30_Witness
    /\ FirstFailing(last.key, values[last.key].v) = 2
    /\ IsErr(result, "MissingKey")

\* the same with a non-textual key in the first element
C30_WitnessKey ==
    /\ C30_Witness /\ IsErr(result, "MalformedStringMap")

(***************************************************************************)
(* Extraction order (C28): the steps of each decoder in the stated order,  *)
(* and what the failure of a step looks like.                              *)
(***************************************************************************)
StepsOf(k) ==
    CASE k = "Recovery" -> <<"ci", "co", "fr", "tg", "is", "df", "du">>
      [] k = "Test" -> <<"ci", "sc", "co", "tg", "is", "nm/ma", "tr", "tt", "tc">>
      [] k = "Vaccine" -> <<"ci", "co", "dt", "tg", "dn", "sd", "is", "ma", "mp", "vp">>
      [] k = "GreenPass" -> <<"dob", "ver", "r/t/v", "nam", "fn", "gn", "fnt", "gnt">>

StepType(step) ==
    CASE step \in {"dn", "sd"} -> "Integer"
      [] step = "nam" -> "Map"
      [] OTHER -> "Text"

\* the map a step reads: the names are read from the map under nam
StepMap(m, step) == IF step \in {"fn", "gn", "fnt", "gnt"} THEN ElemMap(m["nam"]) ELSE m

Malformed(step, v) ==
    \/ step \in {"fr", "df", "du", "dt"} /\ DateDenoted(v.v) = Ymd(0, 0, 0)
    \/ step = "sc" /\ InstantDenoted(v.v).secs < 0
    \/ step = "nam" /\ \E kv \in DOMAIN v.v : kv.t # "Text"

StepFails(m, step) ==
    CASE step = "nm/ma" -> ~HasType(m, "nm", "Text") /\ ~HasType(m, "ma", "Text")
      [] step = "r/t/v" ->
            \/ ArrayKeys(m) = {}
            \/ FailingElems(FirstArrayKey(m), m[FirstArrayKey(m)].v) # {}
      [] OTHER ->
            LET mm == StepMap(m, step)
            IN  \/ ~HasType(mm, step, StepType(step))
                \/ Malformed(step, mm[step])

\* r is the error of the step
StepError(m, step, r) ==
    CASE step = "nm/ma" ->
            /\ r.tag = "Err" /\ r.val.kind \in {"MissingKey", "InvalidFormatFor"}
            /\ r.val.payload \in {"nm", "ma", "ma or nm in test"}
      [] step = "r/t/v" ->
            IF ArrayKeys(m) = {}
            THEN /\ r.tag = "Err" /\ r.val.kind \in {"MissingKey", "InvalidFormatFor"}
                 /\ r.val.payload \in {"r", "t", "v", "r, t or v (the actual data)"}
            ELSE LET k == FirstArrayKey(m)
                     e == m[k].v[FirstFailing(k, m[k].v)]
                     o == ElemOutcome(k, e)
                 IN  /\ o = "wrong type" => IsErr(r, "InvalidFormatFor")
                     /\ o = "non-textual key" => IsErr(r, "MalformedStringMap")
                     /\ o = "entity" => r = Decode(VariantOf(k), ElemMap(e))
      [] OTHER ->
            LET mm == StepMap(m, step)
            IN  IF step \notin DOMAIN mm THEN r = Err("MissingKey", step)
                ELSE IF mm[step].t # StepType(step) THEN r = Err("InvalidFormatFor", step)
                ELSE IF step = "nam" THEN IsErr(r, "MalformedStringMap")
                ELSE r = Err("MalformedDate", mm[step].v)

FailingSteps(k, m) == {i \in 1..Len(StepsOf(k)) : StepFails(m, StepsOf(k)[i])}

\* the first step that fails, evaluated in order: a later step is looked at
\* only when every earlier one passes
RECURSIVE FirstFailingStep(_, _, _)
FirstFailingStep(k, m, i) ==
    IF i > Len(StepsOf(k)) THEN 0
    ELSE IF StepFails(m, StepsOf(k)[i]) THEN i
    ELSE FirstFailingStep(k, m, i + 1)

Ordered == kind \in {"Recovery", "Test", "Vaccine", "GreenPass"}

\* C28: an entity decoder extracts its fields in a fixed order (Recovery:
\* ci, co, fr, tg, is, df, du; Test: ci, sc, co, tg, is, nm/ma, tr, tt, tc;
\* Vaccine: ci, co, dt, tg, dn, sd, is, ma, mp, vp; GreenPass: dob, ver,
\* r/t/v, nam, fn, gn, fnt, gnt) and reports the failure of the first field
\* that fails; the leftover check comes last, so a leftover error is
\* returned only when no field fails.
C28_ExtractionOrder ==
    Ordered
    => LET i == FirstFailingStep(kind, values, 1)
       IN  /\ i # 0 => StepError(values, StepsOf(kind)[i], result)
           /\ i = 0 => (IsOk(result) \/ IsErr(result, "SpuriousData"))

\* a map with an unrecognized key, rejected for it, lost a mandatory field
\* that is not the first: the missing field is reported, not the leftover
C28_Witness ==
    /\ Ordered /\ Removed /\ "xx" \in DOMAIN values
    /\ IsErr(prevResult, "SpuriousData")
    /\ last.key # FirstKey
    /\ result = Err("MissingKey", last.key)

\* two fields fail and the error is that of the earlier one, which was
\* removed after the later one
C28_WitnessTwo ==
    /\ Ordered /\ Removed /\ edits = 2
    /\ Cardinality(FailingSteps(kind, values)) = 2
    /\ IsErr(prevResult, "MissingKey")
    /\ result = Err("MissingKey", last.key)
    /\ result # prevResult

(***************************************************************************)
(* The stages of the pipeline (C27), numbered in the stated order: 1       *)
(* prefix, 2 base45, 3 decompression, 4 envelope decode, 5 element count,  *)
(* 6 payload type, 7 payload decode, 8 issuer, 9 expiration, 10 issued-at, *)
(* 11 certificate data, 12 coercion of every pass, 13 decoding of the      *)
(* passes.  Each stage is looked at on the output of the stages before it. *)
(***************************************************************************)
Base45Of(cs) == base45_decode(trim(SubSeq(cs, 5, Len(cs))))
InflatedOf(cs) == ZlibDecoder_read_to_end(Base45Of(cs).val)

\* the first of the stages 1 to 4 that fails on a text, 0 when none does
TextStage(cs) ==
    IF Len(cs) < 4 \/ SubSeq(cs, 1, 4) # <<"H", "C", "1", ":">> THEN 1
    ELSE IF ~IsOk(Base45Of(cs)) THEN 2
    ELSE IF ~IsOk(InflatedOf(cs)) THEN 3
    ELSE IF InflatedOf(cs).val.t # "Array" THEN 4
    ELSE 0

\* the first of the stages 5 to 7 that fails on an envelope
CwtStage(arr) ==
    IF Len(arr) # 4 THEN 5
    ELSE IF arr[3].t # "Bytes" THEN 6
    ELSE IF ~IsOk(from_slice_RawCert(arr[3].v)) THEN 7
    ELSE 0

\* a timestamp claim that is an integer the date library cannot represent
OutOfRange(m, k) ==
    HasType(m, k, "Integer") /\ ~(m[k].v >= 0 /\ m[k].v <= MaxTimestamp)

Coerces(v) == v.t = "Map" /\ \A kv \in DOMAIN v.v : kv.t = "Text"

\* the values of the -260 map whose pass does not decode, by position in
\* key order
FailingPasses(m) ==
    LET vs == ValuesInOrder(m[-260].v)
    IN  {i \in 1..Len(vs) : ~IsOk(Decode("GreenPass", ElemMap(vs[i])))}

\* the first of the stages 8 to 13 that fails on a claims map; -1 when a
\* timestamp that cannot be represented is reached first (what happens
\* then is the subject of C12 and C19)
ClaimStage(m) ==
    IF WrongType(m, 1, "Text") THEN 8
    ELSE IF ~HasType(m, 4, "Integer") THEN 9
    ELSE IF OutOfRange(m, 4) THEN -1
    ELSE IF ~HasType(m, 6, "Integer") THEN 10
    ELSE IF OutOfRange(m, 6) THEN -1
    ELSE IF ~HasType(m, -260, "Map") THEN 11
    ELSE IF \E kv \in DOMAIN m[-260].v : ~Coerces(m[-260].v[kv]) THEN 12
    ELSE IF FailingPasses(m) # {} THEN 13
    ELSE 0

EnvelopeOf(k, x) ==
    CASE k = "Text" -> InflatedOf(x).val.v
      [] k = "Cwt" -> x
      [] k = "HealthCert" -> Envelope(x)

ClaimsOf(k, x) == from_slice_RawCert(EnvelopeOf(k, x)[3].v).val

FirstStage(k, x) ==
    IF k = "Text" /\ TextStage(x) # 0 THEN TextStage(x)
    ELSE IF CwtStage(EnvelopeOf(k, x)) # 0 THEN CwtStage(EnvelopeOf(k, x))
    ELSE ClaimStage(ClaimsOf(k, x))

ClaimError(m, k, desc, r) ==
    IF k \notin DOMAIN m THEN r = Err("MissingKey", desc)
    ELSE r = Err("InvalidFormatFor", desc)

\* r is the error of stage s
StageError(s, k, x, r) ==
    CASE s = 1 -> IsErr(r, "MissingHCID")
      [] s = 2 -> IsErr(r, "InvalidBase45")
      [] s = 3 -> IsErr(r, "IOError")
      [] s = 4 -> IsErr(r, "MalformedCBOR")
      [] s = 5 -> IsErr(r, "MalformedCWT")
      [] s = 6 -> r = Err("InvalidFormatFor", "root cert")
      [] s = 7 -> IsErr(r, "MalformedCBOR")
      [] s = 8 -> r = Err("InvalidFormatFor", "issuing country")
      [] s = 9 -> ClaimError(ClaimsOf(k, x), 4, "expiration timestamp", r)
      [] s = 10 -> ClaimError(ClaimsOf(k, x), 6, "issue timestamp", r)
      [] s = 11 -> ClaimError(ClaimsOf(k, x), -260, "hcert", r)
      [] s = 12 -> IsErr(r, "InvalidFormatFor") \/ IsErr(r, "MalformedStringMap")
      [] s = 13 ->
            LET m == ClaimsOf(k, x)
                vs == ValuesInOrder(m[-260].v)
                failing == FailingPasses(m)
                i == CHOOSE i \in failing : \A j \in failing : i <= j
            IN  r = Decode("GreenPass", ElemMap(vs[i]))

\* C27: decoding is a fail-fast pipeline of the stages in the stated order:
\* the error returned is that of the first stage that fails, whatever the
\* later stages would have found, and the decode succeeds when none fails
\* (for timestamps that can be represented).
C27_PipelineOrder ==
    kind \in CertKinds
    => LET s == FirstStage(kind, values)
       IN  /\ s > 0 => StageError(s, kind, values, result)
           /\ s = 0 => IsOk(result)

\* every pass is coerced before any is decoded: the first pass does not
\* decode, the second is not a map, and the error is the second's
C27_Witness ==
    /\ kind = "HealthCert" /\ last.op = "add" /\ last.key = -260
    /\ FirstStage(kind, values) = 12
    /\ LET vs == ValuesInOrder(values[-260].v)
       IN  /\ Len(vs) = 2
           /\ Coerces(vs[1]) /\ ~IsOk(Decode("GreenPass", ElemMap(vs[1])))
           /\ ~Coerces(vs[2])
    /\ result = Err("InvalidFormatFor", "hcert")

\* two stages fail and the error is the earlier one's
C27_WitnessEarlier ==
    /\ kind = "HealthCert" /\ edits = 2
    /\ 4 \notin DOMAIN values /\ -260 \notin DOMAIN values
    /\ result = Err("MissingKey", "expiration timestamp")

StageReached(s) == kind \in CertKinds /\ FirstStage(kind, values) = s

\* of two passes that do not decode, the error is the first one's
C27_WitnessPasses ==
    /\ StageReached(13) /\ kind = "HealthCert"
    /\ FailingPasses(values) = {1, 2}
    /\ IsErr(result, "SpuriousData")

(***************************************************************************)
(* The command-line front ends: src/bin/greenpass.rs and src/main.rs.      *)
(* An invocation is the front end run (bin), its file argument and the     *)
(* bytes of the input; its outcome is the exit status and what was written *)
(* to the output and error streams.  The bytes are characters, NonUtf8 is  *)
(* a byte that is no UTF-8.                                                *)
(***************************************************************************)
NonUtf8 == "0xFF"

\* String::from_utf8(buf)
from_utf8(buf) ==
    IF \E i \in 1..Len(buf) : buf[i] = NonUtf8 THEN Err("FromUtf8Error", "") ELSE Ok(buf)

\* `if file == "-" { read_stdin()? } else { read(file)? }`: the bytes of
\* the input, or the io error of a file that cannot be read
read_input(opts) ==
    IF opts.file = "missing.txt" THEN Err("IOError", opts.file) ELSE Ok(opts.buf)

\* process_cert of src/main.rs: the pipeline of HealthCert::try_from
process_cert(data) == HealthCert_try_from(data)

\* main_do of src/bin/greenpass.rs, as its result and what it printed
main_do_greenpass(opts) ==
    Bind(read_input(opts), LAMBDA buf :
        IF ~IsOk(buf) THEN [res |-> buf, stdout |-> <<>>]
        ELSE IF buf.val # <<>>
        THEN Bind(from_utf8(buf.val), LAMBDA buf_str :
            IF ~IsOk(buf_str) THEN [res |-> buf_str, stdout |-> <<>>]
            ELSE Bind(parse(buf_str.val), LAMBDA hc :
                IF IsOk(hc) THEN [res |-> Ok(<<>>), stdout |-> <<hc.val>>]
                ELSE [res |-> hc, stdout |-> <<>>]))
        ELSE [res |-> Ok(<<>>), stdout |-> <<>>])

\* main_do of src/main.rs
main_do_main(opts) ==
    Bind(read_input(opts), LAMBDA buf :
        IF ~IsOk(buf) THEN [res |-> buf, stdout |-> <<>>]
        ELSE Bind(from_utf8(buf.val), LAMBDA buf_str :
            IF ~IsOk(buf_str) THEN [res |-> buf_str, stdout |-> <<>>]
            ELSE Bind(process_cert(buf_str.val), LAMBDA hc :
                IF IsOk(hc) THEN [res |-> Ok(<<>>), stdout |-> <<hc.val>>]
                ELSE [res |-> hc, stdout |-> <<>>])))

main_do(opts) ==
    IF opts.bin = "greenpass" THEN main_do_greenpass(opts) ELSE main_do_main(opts)

\* std::process::exit(n): the status is the low eight bits of n
exit(n) == n % 256

\* `if let Err(e) = main_do() { eprintln!("error: {}", e); exit(-1); }`; a
\* panic ends the process with the message on the error stream and the
\* status 101
main(opts) ==
    Bind(main_do(opts), LAMBDA r :
        IF r.res.tag = "Panic"
        THEN [status |-> 101, stdout |-> r.stdout, stderr |-> <<"panicked">>]
        ELSE IF r.res.tag = "Err"
        THEN [status |-> exit(0 - 1), stdout |-> r.stdout, stderr |-> <<r.res.val.kind>>]
        ELSE [status |-> 0, stdout |-> r.stdout, stderr |-> <<>>])

\* the inputs to start from (an input becomes empty by losing its bytes),
\* and the bytes an input can grow by
CliInputs ==
    {<<" ">>, <<NonUtf8>>, HCID \o <<"1", "0">>, HCID \o <<"3", "0">>,
     HCID \o <<"4", "0">>}
CliBytes == {" ", "1", NonUtf8}

InitCli ==
    /\ kind = "Cli"
    /\ values \in [bin : {"greenpass", "main"}, file : {"-", "cert.txt", "missing.txt"},
                   buf : CliInputs]
    /\ result = main(values)
    /\ prevResult = result
    /\ last = [op |-> "run"]
    /\ edits = 0

Rerun(opts, op) ==
    /\ edits < MaxEdits
    /\ values' = opts
    /\ result' = main(opts)
    /\ prevResult' = result
    /\ last' = [op |-> op]
    /\ edits' = edits + 1
    /\ UNCHANGED kind

\* the input grows by a byte, or loses its last byte, and the front end is
\* run on it
AppendByte ==
    /\ kind = "Cli"
    /\ \E c \in CliBytes : Rerun([values EXCEPT !.buf = Append(values.buf, c)], "append")

DropByte ==
    /\ kind = "Cli"
    /\ values.buf # <<>>
    /\ Rerun([values EXCEPT !.buf = SubSeq(values.buf, 1, Len(values.buf) - 1)], "drop")

NextCli ==
    \/ AppendByte
    \/ DropByte

SpecCli == InitCli /\ [][NextCli]_vars

\* the input could be read
InputRead == values.file # "missing.txt"

\* a non-empty input that does not decode
FailsToDecode(buf) == buf # <<>> /\ (~IsOk(from_utf8(buf)) \/ ~IsOk(HealthCert_try_from(buf)))

Silent(r) == r.status = 0 /\ r.stdout = <<>> /\ r.stderr = <<>>
Reported(r) == r.status # 0 /\ r.stdout = <<>> /\ r.stderr # <<>>

\* C25: the command-line front end takes an input that is empty once read,
\* from a file or from standard input, as no error (nothing printed, status
\* zero), and ends every non-empty input that fails to decode with the
\* error on the error stream and a status that is not zero.
C25_EmptyInputIsNoError ==
    InputRead
    => /\ values.buf = <<>> => Silent(result)
       /\ FailsToDecode(values.buf) => Reported(result)

\* C25 for the front end of src/bin/greenpass.rs
C25_BinGreenpass == values.bin = "greenpass" => C25_EmptyInputIsNoError

\* C25 without its first part, for both front ends
C25_FailureReported == (InputRead /\ FailsToDecode(values.buf)) => Reported(result)

\* an input that decoded lost its bytes one after the other
C25_Emptied ==
    /\ kind = "Cli" /\ InputRead /\ values.buf = <<>> /\ last.op = "drop" /\ Silent(result)
    /\ ~Silent(prevResult)

====
